---- MODULE Spec2Model ----
(***************************************************************************)
(* Proofset: hash-chained commitment over an ordered file sequence.        *)
(*                                                                         *)
(* Strings are sequences of characters and a character is a natural        *)
(* number: its ASCII code for an ordinary character, and a number from     *)
(* HexBase upwards for a hex digit of a digest.  A digest is produced by   *)
(* crypto.subtle.digest, modelled as a collision-free oracle: the table    *)
(* `oracle` lists the (algorithm, bytes) pairs digested so far and the     *)
(* digest of a pair is a row of hex digits that name the pair's position   *)
(* in the table and their own position in the digest.                      *)
(***************************************************************************)
EXTENDS Integers, Sequences, FiniteSets, TLC

VARIABLES
  oracle,   \* crypto.subtle.digest: the (algorithm, bytes) pairs digested so far
  tz,       \* the host's local time zone, as an offset in hours from UTC
  call,     \* call[r]: the locals of the r-th createProofset call
  simple,   \* simple[r]: the locals of the r-th createSimpleProofset call
  check     \* the last verifier call: its name, its arguments and what it returned

vars == <<oracle, tz, call, simple, check>>

----------------------------------------------------------------------------
(* Bounds *)

MaxFiles == 2       \* longest input file sequence
MaxZone == 1        \* time zones 0..MaxZone hours east of UTC
MaxTamperFiles == 1 \* single characters are replaced in the lines of proofsets of up to this many files
MaxExtraLen == 2    \* inferAlgorithm is tried on lengths up to Sha512HexLen + MaxExtraLen
MaxSegments == 2    \* a hand-written hash list has up to this many hashes
MaxContentLines == 3 \* a hand-written details file has up to this many lines
MaxPieces == 5      \* a hand-written detail string has up to this many pieces between spaces
MaxEntries == 2     \* up to this many hand-written detail lines are matched against up to this many files
MaxBatchLines == 2  \* a details file handed to the verify command has up to this many lines

Runs == 1..2

----------------------------------------------------------------------------
(* Characters *)

LF == 10
CR == 13
SP == 32
Digit0 == 48
Hyphen == 45
Colon == 58
UpperA == 65
UpperF == 70
UpperX == 88
UpperZ == 90
Backslash == 92
Slash == 47
Tab == 9
LowerA == 97
LowerF == 102
LowerZ == 122
CaseGap == 32       \* 'a' - 'A'
HexBase == 1000     \* first number that stands for a digest's hex digit
MaxHexLen == 128    \* positions reserved per digest

CRLF == <<CR, LF>>
ColonSpace == <<Colon, SP>>

Undefined == <<-1>>   \* JavaScript undefined / null, where a string is expected

Sha256HexLen == 64
Sha512HexLen == 128

Algorithms == {"SHA-256", "SHA-512"}

\* The hex digit at position pos (from 0) of the digest in row id of the oracle;
\* up = 1 is its upper-case form.
HexTok(id, pos, up) == HexBase + (id * MaxHexLen + pos) * 2 + up

IsDigestTok(c) == c >= HexBase
TokRow(c) == ((c - HexBase) \div 2) \div MaxHexLen
TokPos(c) == ((c - HexBase) \div 2) % MaxHexLen
TokUp(c) == (c - HexBase) % 2
\* Whether a digest's hex digit is one of a..f (and so has an upper-case form)
\* or one of 0..9: every digest has digits of both kinds.
TokIsLetter(c) == (TokRow(c) + TokPos(c)) % 2 = 0

IsHexChar(c) ==
  IF IsDigestTok(c) THEN TRUE
  ELSE \/ (c >= Digit0 /\ c <= Digit0 + 9)
       \/ (c >= LowerA /\ c <= LowerF)
       \/ (c >= UpperA /\ c <= UpperF)

IsDecDigit(c) ==
  IF IsDigestTok(c) THEN ~TokIsLetter(c) ELSE c >= Digit0 /\ c <= Digit0 + 9

LowerChar(c) ==
  IF IsDigestTok(c) THEN c - TokUp(c)
  ELSE IF c >= UpperA /\ c <= UpperZ THEN c + CaseGap ELSE c

UpperChar(c) ==
  IF IsDigestTok(c) THEN (IF TokIsLetter(c) /\ TokUp(c) = 0 THEN c + 1 ELSE c)
  ELSE IF c >= LowerA /\ c <= LowerZ THEN c - CaseGap ELSE c

----------------------------------------------------------------------------
(* Strings *)

toLowerCase(s) == [i \in 1..Len(s) |-> LowerChar(s[i])]
toUpperCase(s) == [i \in 1..Len(s) |-> UpperChar(s[i])]

\* s.slice(from, to), positions counted from 0
Slice(s, from, to) == SubSeq(s, from + 1, to)
SliceFrom(s, from) == SubSeq(s, from + 1, Len(s))

MatchAt(s, pat, i) ==
  /\ i + Len(pat) <= Len(s)
  /\ \A k \in 1..Len(pat) : s[i + k] = pat[k]

\* s.indexOf(pat, from): the first position (from 0) at or after `from` where pat
\* occurs, -1 when there is none
IndexOfFrom(s, pat, from) ==
  IF \E i \in from..Len(s) : MatchAt(s, pat, i)
  THEN CHOOSE i \in from..Len(s) : MatchAt(s, pat, i) /\ \A j \in from..(i - 1) : ~MatchAt(s, pat, j)
  ELSE -1

IndexOf(s, pat) == IndexOfFrom(s, pat, 0)

RECURSIVE Split(_, _)
\* s.split(sep) for a non-empty separator
Split(s, sep) ==
  LET i == IndexOf(s, sep)
  IN IF i = -1 THEN <<s>>
     ELSE <<Slice(s, 0, i)>> \o Split(SliceFrom(s, i + Len(sep)), sep)

RECURSIVE Join(_, _)
\* parts.join(sep)
Join(parts, sep) ==
  IF Len(parts) = 0 THEN <<>>
  ELSE IF Len(parts) = 1 THEN parts[1]
  ELSE parts[1] \o sep \o Join(Tail(parts), sep)

\* parts.filter(Boolean): the non-empty strings
FilterNonEmpty(parts) == SelectSeq(parts, LAMBDA p : p # <<>>)

RECURSIVE DecStr(_)
\* String(n) for a natural number
DecStr(n) == IF n < 10 THEN <<Digit0 + n>> ELSE DecStr(n \div 10) \o <<Digit0 + (n % 10)>>

RECURSIVE PadStart(_, _, _)
\* s.padStart(width, fill) for a one-character fill
PadStart(s, width, fill) == IF Len(s) >= width THEN s ELSE PadStart(<<fill>> \o s, width, fill)

----------------------------------------------------------------------------
(* hash.ts *)

HexLen(alg) == IF alg = "SHA-256" THEN Sha256HexLen ELSE Sha512HexLen

\* new TextEncoder().encode(s): every character of the model is ASCII and encodes
\* to the single byte of its code
Utf8Encode(s) == [i \in 1..Len(s) |-> s[i]]

\* The row of the oracle that holds (alg, bytes); a pair not digested before takes
\* the next free row.
OracleRow(o, alg, bytes) ==
  LET row == <<alg, bytes>>
      rows == {i \in 1..Len(o) : o[i] = row}
  IN IF rows = {} THEN Len(o) + 1 ELSE CHOOSE i \in rows : TRUE

\* The oracle after digesting (alg, bytes)
OracleAdd(o, alg, bytes) ==
  LET row == <<alg, bytes>>
  IN IF \E i \in 1..Len(o) : o[i] = row THEN o ELSE Append(o, row)

\* toHex with upper-case hex digits
toHexUpper(row, alg) == [p \in 1..HexLen(alg) |-> UpperChar(HexTok(row, p - 1, 0))]

\* toHex(digest): lower-case hex, two characters per byte
toHex(row, alg) == [p \in 1..HexLen(alg) |-> HexTok(row, p - 1, 0)]

hashBytes(o, input, alg) == toHex(OracleRow(o, alg, input), alg)

hashString(o, input, alg) == hashBytes(o, Utf8Encode(input), alg)

----------------------------------------------------------------------------
(* proofset.ts *)

\* A Date is its UTC calendar fields; month counts from 0 as getUTCMonth does.
getUTCHours(date) == date.hours
\* The hour in the host's local time zone
getHours(date) == (date.hours + tz) % 24

\* formatModifiedTime with the local-time getter for the hour
formatModifiedTimeLocal(date) ==
  DecStr(date.year)
    \o PadStart(DecStr(date.month + 1), 2, Digit0)
    \o PadStart(DecStr(date.day), 2, Digit0)
    \o <<Hyphen>>
    \o PadStart(DecStr(getHours(date)), 2, Digit0)
    \o PadStart(DecStr(date.minutes), 2, Digit0)
    \o PadStart(DecStr(date.seconds), 2, Digit0)

\* formatModifiedTime without the seconds
formatModifiedTimeToMinute(date) ==
  DecStr(date.year)
    \o PadStart(DecStr(date.month + 1), 2, Digit0)
    \o PadStart(DecStr(date.day), 2, Digit0)
    \o <<Hyphen>>
    \o PadStart(DecStr(getUTCHours(date)), 2, Digit0)
    \o PadStart(DecStr(date.minutes), 2, Digit0)

formatModifiedTime(date) ==
  DecStr(date.year)
    \o PadStart(DecStr(date.month + 1), 2, Digit0)
    \o PadStart(DecStr(date.day), 2, Digit0)
    \o <<Hyphen>>
    \o PadStart(DecStr(getUTCHours(date)), 2, Digit0)
    \o PadStart(DecStr(date.minutes), 2, Digit0)
    \o PadStart(DecStr(date.seconds), 2, Digit0)

\* buildFileDetails with the legacy double space before the path
buildFileDetailsLegacy(fileSecret, modifiedTimeUtc, contentHash, filePath) ==
  fileSecret \o <<SP>> \o modifiedTimeUtc \o <<SP>> \o contentHash \o <<SP, SP>> \o filePath

buildFileDetails(fileSecret, modifiedTimeUtc, contentHash, filePath) ==
  fileSecret \o <<SP>> \o modifiedTimeUtc \o <<SP>> \o contentHash \o <<SP>> \o filePath

\* if (file.fullPath): undefined and the empty string are both falsy
Truthy(s) == s # Undefined /\ s # <<>>

\* PathsOf with the relative path pushed first
PathsOfRelativeFirst(file) ==
  <<file.relativePath>> \o (IF Truthy(file.fullPath) THEN <<file.fullPath>> ELSE <<>>)

\* lines 58-62: the full path when there is one, then the relative path
PathsOf(file) ==
  (IF Truthy(file.fullPath) THEN <<file.fullPath>> ELSE <<>>) \o <<file.relativePath>>

----------------------------------------------------------------------------
(* Inputs *)

Date1 == [year |-> 2026, month |-> 1, day |-> 17, hours |-> 0, minutes |-> 37, seconds |-> 35, ms |-> 0]
Date1b == [Date1 EXCEPT !.ms = 500]
Date1c == [Date1 EXCEPT !.seconds = 36]
Date2 == [year |-> 2026, month |-> 11, day |-> 9, hours |-> 23, minutes |-> 5, seconds |-> 40, ms |-> 0]

PathA == <<97>>                         \* "a"
PathBC == <<98, SP, 99>>                \* "b c"
PathDirBC == <<100, Backslash>> \o PathBC  \* "d\b c"

ContentX == <<120>>
ContentY == <<121, CR, LF>>

\* a top-level file as the create command passes it: full path = file name
FileP == [relativePath |-> PathA, fullPath |-> PathA, modifiedTime |-> Date1, content |-> ContentX]
\* the same file passed without a full path, modified half a second later
FileQ == [relativePath |-> PathA, fullPath |-> Undefined, modifiedTime |-> Date1b, content |-> ContentX]
\* a file in a directory, with a space in its name
FileR == [relativePath |-> PathBC, fullPath |-> PathDirBC, modifiedTime |-> Date2, content |-> ContentY]
\* a file whose full path is the empty string
FileE == [relativePath |-> PathBC, fullPath |-> <<>>, modifiedTime |-> Date2, content |-> ContentX]

FileSet == {FileP, FileQ, FileR, FileE}
\* the input sequences: up to MaxFiles files, each file at most once
FileSeqs ==
  UNION {{f \in [1..n -> FileSet] : \A i, j \in 1..n : f[i] = f[j] => i = j} : n \in 0..MaxFiles}

Seeds == {<<112>>, <<112, 119>>}       \* "p", "pw"

\* the file sequences that differ from `files` in one modification time only: one
\* file is given the time Date1, half a second later, or a second later
Retimings(files) ==
  {[files EXCEPT ![i].modifiedTime = time] :
     i \in 1..Len(files), time \in {Date1, Date1b, Date1c}}

\* the reorderings of a file sequence
Reorderings(files) ==
  {[i \in 1..Len(files) |-> files[p[i]]] : p \in Permutations(1..Len(files))}

----------------------------------------------------------------------------
(* createProofset, one step per await of the loop *)

IdleCall ==
  [pc |-> "idle", seedPassword |-> <<>>, algorithm |-> "SHA-256", files |-> <<>>, next |-> 1,
   contentHash |-> Undefined, modifiedTimeUtc |-> Undefined, paths |-> <<>>, pathIdx |-> 1,
   prevFileSecret |-> Undefined, prevFileDetailsHash |-> Undefined, fileSecret |-> Undefined,
   fileDetails |-> <<>>, fileDetailsHashList |-> <<>>, fileDetailsLines |-> <<>>,
   result |-> Undefined]

NoCheck == <<>>

\* the files in the canonical order of the create command: sorted by relative path
SortedByPath(files) ==
  CHOOSE g \in Reorderings(files) :
    \A i, j \in 1..Len(g) : i < j => g[i].relativePath[1] <= g[j].relativePath[1]

\* CurrentFile with the input sorted before it is processed
CurrentFileSorted(c) == SortedByPath(c.files)[c.next]

\* line 53: the file the iteration yields next, in the order the source yields them
CurrentFile(c) == c.files[c.next]

\* lines 42-51: the locals are initialised and the first secret is H(seedPassword)
Start(r, seedPassword, algorithm, files) ==
  /\ call[r].pc = "idle"
  /\ \A q \in Runs : simple[q].pc = "idle"
  /\ check = NoCheck
  /\ call' = [call EXCEPT ![r] =
       [IdleCall EXCEPT !.pc = "loop", !.seedPassword = seedPassword,
                        !.algorithm = algorithm, !.files = files,
                        !.fileSecret = hashString(oracle, seedPassword, algorithm)]]
  /\ oracle' = OracleAdd(oracle, algorithm, Utf8Encode(seedPassword))
  /\ UNCHANGED <<tz, simple, check>>

\* lines 53-62: the next file is read, its content hashed, its time formatted
NextFile(r) ==
  LET c == call[r]
      file == CurrentFile(c)
  IN /\ c.pc = "loop"
     /\ c.next <= Len(c.files)
     /\ call' = [call EXCEPT ![r] =
          [c EXCEPT !.pc = "paths", !.next = c.next + 1,
                    !.contentHash = hashBytes(oracle, file.content, c.algorithm),
                    !.modifiedTimeUtc = formatModifiedTime(file.modifiedTime),
                    !.paths = PathsOf(file), !.pathIdx = 1]]
     /\ oracle' = OracleAdd(oracle, c.algorithm, file.content)
     /\ UNCHANGED <<tz, simple, check>>

\* NextSecret with the chain advanced once per file instead of once per entry
NextSecretPerFile(o, c) ==
  IF c.prevFileSecret # Undefined /\ c.prevFileDetailsHash # Undefined /\ c.pathIdx = 1
  THEN hashString(o, c.seedPassword \o c.prevFileSecret \o c.prevFileDetailsHash, c.algorithm)
  ELSE c.fileSecret

\* lines 67-72: the secret of this entry
NextSecret(o, c) ==
  IF c.prevFileSecret # Undefined /\ c.prevFileDetailsHash # Undefined
  THEN hashString(o, c.seedPassword \o c.prevFileSecret \o c.prevFileDetailsHash, c.algorithm)
  ELSE c.fileSecret

\* the oracle after lines 67-72
OracleAfterSecret(o, c) ==
  IF c.prevFileSecret # Undefined /\ c.prevFileDetailsHash # Undefined
  THEN OracleAdd(o, c.algorithm,
                 Utf8Encode(c.seedPassword \o c.prevFileSecret \o c.prevFileDetailsHash))
  ELSE o

\* AppendHash with a bare line feed as the terminator
AppendHashLf(list, fdHash) == list \o fdHash \o <<LF>>

\* line 85
AppendHash(list, fdHash) == list \o fdHash \o CRLF

\* line 93
RootHash(o, list, alg) == hashBytes(o, Utf8Encode(list), alg)

\* line 99
LineList(lines) == Join(lines, CRLF) \o CRLF

\* line 86
DetailLine(fdHash, detailStr) == fdHash \o ColonSpace \o detailStr

\* EmitEntry with line 89 left out: the detail hash of the entry is not stored
EmitEntryKeepingPrevHash(r) ==
  LET c == call[r]
      filePath == c.paths[c.pathIdx]
      o1 == OracleAfterSecret(oracle, c)
      fileSecret == NextSecret(o1, c)
      detailStr == buildFileDetails(fileSecret, c.modifiedTimeUtc, c.contentHash, filePath)
      fdHash == hashString(o1, detailStr, c.algorithm)
  IN /\ c.pc = "paths"
     /\ call' = [call EXCEPT ![r] =
          [c EXCEPT !.pc = IF c.pathIdx = Len(c.paths) THEN "loop" ELSE "paths",
                    !.pathIdx = c.pathIdx + 1,
                    !.fileSecret = fileSecret,
                    !.fileDetails = Append(c.fileDetails,
                       [fileDetailsHash |-> fdHash, fileSecret |-> fileSecret,
                        modifiedTimeUtc |-> c.modifiedTimeUtc, contentHash |-> c.contentHash,
                        filePath |-> filePath]),
                    !.fileDetailsHashList = AppendHash(c.fileDetailsHashList, fdHash),
                    !.fileDetailsLines = Append(c.fileDetailsLines, DetailLine(fdHash, detailStr)),
                    !.prevFileSecret = fileSecret]]
     /\ oracle' = OracleAdd(o1, c.algorithm, Utf8Encode(detailStr))
     /\ UNCHANGED <<tz, simple, check>>

\* lines 64-90: one entry is emitted for the next path of the file
EmitEntry(r) ==
  LET c == call[r]
      filePath == c.paths[c.pathIdx]
      o1 == OracleAfterSecret(oracle, c)
      fileSecret == NextSecret(o1, c)
      detailStr == buildFileDetails(fileSecret, c.modifiedTimeUtc, c.contentHash, filePath)
      fdHash == hashString(o1, detailStr, c.algorithm)
  IN /\ c.pc = "paths"
     /\ call' = [call EXCEPT ![r] =
          [c EXCEPT !.pc = IF c.pathIdx = Len(c.paths) THEN "loop" ELSE "paths",
                    !.pathIdx = c.pathIdx + 1,
                    !.fileSecret = fileSecret,
                    !.fileDetails = Append(c.fileDetails,
                       [fileDetailsHash |-> fdHash, fileSecret |-> fileSecret,
                        modifiedTimeUtc |-> c.modifiedTimeUtc, contentHash |-> c.contentHash,
                        filePath |-> filePath]),
                    !.fileDetailsHashList = AppendHash(c.fileDetailsHashList, fdHash),
                    !.fileDetailsLines = Append(c.fileDetailsLines, DetailLine(fdHash, detailStr)),
                    !.prevFileSecret = fileSecret,
                    !.prevFileDetailsHash = fdHash]]
     /\ oracle' = OracleAdd(o1, c.algorithm, Utf8Encode(detailStr))
     /\ UNCHANGED <<tz, simple, check>>

\* lines 93-100: the root hash and the result; the locals end with the call
Finish(r) ==
  LET c == call[r]
  IN /\ c.pc = "loop"
     /\ c.next > Len(c.files)
     /\ call' = [call EXCEPT ![r] =
          [IdleCall EXCEPT !.pc = "done", !.seedPassword = c.seedPassword,
                    !.algorithm = c.algorithm, !.files = c.files, !.next = c.next,
                    !.result =
                      [hashsetHash |-> RootHash(oracle, c.fileDetailsHashList, c.algorithm),
                       fileDetailsHashList |-> c.fileDetailsHashList,
                       fileDetails |-> c.fileDetails,
                       fileDetailsLineList |-> LineList(c.fileDetailsLines)]]]
     /\ oracle' = OracleAdd(oracle, c.algorithm, Utf8Encode(c.fileDetailsHashList))
     /\ UNCHANGED <<tz, simple, check>>

\* the first call, on any input
CreateProofset ==
  /\ call[1].pc = "idle"
  /\ \A q \in Runs : simple[q].pc = "idle"
  /\ check = NoCheck
  /\ \E seedPassword \in Seeds, algorithm \in Algorithms, files \in FileSeqs :
        Start(1, seedPassword, algorithm, files)

\* a second call once the first has returned: the same seed and algorithm, the same
\* files in any order
CreateProofsetAgain ==
  /\ call[1].pc = "done"
  /\ \E files \in Reorderings(call[1].files) :
        Start(2, call[1].seedPassword, call[1].algorithm, files)

\* Fail with a handler that returns what has been accumulated so far as the result
FailWithPartialResult(r) ==
  LET c == call[r]
  IN /\ c.pc \in {"loop", "paths"}
     /\ call' = [call EXCEPT ![r] =
          [IdleCall EXCEPT !.pc = "done", !.seedPassword = c.seedPassword,
                    !.algorithm = c.algorithm, !.files = c.files, !.next = c.next,
                    !.result =
                      [hashsetHash |-> Undefined,
                       fileDetailsHashList |-> c.fileDetailsHashList,
                       fileDetails |-> c.fileDetails,
                       fileDetailsLineList |-> LineList(c.fileDetailsLines)]]]
     /\ UNCHANGED <<oracle, tz, simple, check>>

\* lines 53-93: the read of the next file, or the hash the call is about to take,
\* fails; nothing in the function catches it, so the call rejects, its locals end
\* with it and no result is returned
Fail(r) ==
  LET c == call[r]
  IN /\ c.pc \in {"loop", "paths"}
     /\ call' = [call EXCEPT ![r] =
          [IdleCall EXCEPT !.pc = "failed", !.seedPassword = c.seedPassword,
                    !.algorithm = c.algorithm, !.files = c.files, !.next = c.next]]
     /\ UNCHANGED <<oracle, tz, simple, check>>

\* the host's time zone changes between two steps
SetTimeZone ==
  /\ \E z \in 0..MaxZone : z # tz /\ tz' = z
  /\ call[1].pc = "done" \/ simple[1].pc = "done"
  /\ call[2].pc = "idle" /\ simple[2].pc = "idle"
  /\ check = NoCheck
  /\ UNCHANGED <<oracle, call, simple, check>>

----------------------------------------------------------------------------

(* simple-proofset.ts: createSimpleProofset, one step per await of the loop *)

IdleSimple ==
  [pc |-> "idle", algorithm |-> "SHA-256", files |-> <<>>, next |-> 1,
   entries |-> <<>>, lines |-> <<>>, result |-> Undefined]

\* line 31 without the timestamp: the content hash and the file name only
SimpleLineHashAndName(contentHash, modifiedTimeUtc, fileName) ==
  contentHash \o <<SP>> \o fileName

\* line 31
SimpleLine(contentHash, modifiedTimeUtc, fileName) ==
  contentHash \o <<SP>> \o modifiedTimeUtc \o <<SP>> \o fileName

\* lines 21-23
SimpleStart(r, algorithm, files) ==
  /\ simple[r].pc = "idle"
  /\ \A q \in Runs : call[q].pc = "idle"
  /\ check = NoCheck
  /\ simple' = [simple EXCEPT ![r] =
       [IdleSimple EXCEPT !.pc = "loop", !.algorithm = algorithm, !.files = files]]
  /\ UNCHANGED <<oracle, tz, call, check>>

\* lines 25-32
SimpleNextFile(r) ==
  LET c == simple[r]
      file == c.files[c.next]
      contentHash == hashBytes(oracle, file.content, c.algorithm)
      modifiedTimeUtc == formatModifiedTime(file.modifiedTime)
      fileName == file.relativePath
  IN /\ c.pc = "loop"
     /\ c.next <= Len(c.files)
     /\ simple' = [simple EXCEPT ![r] =
          [c EXCEPT !.next = c.next + 1,
                    !.entries = Append(c.entries,
                       [contentHash |-> contentHash, modifiedTimeUtc |-> modifiedTimeUtc,
                        fileName |-> fileName]),
                    !.lines = Append(c.lines, SimpleLine(contentHash, modifiedTimeUtc, fileName))]]
     /\ oracle' = OracleAdd(oracle, c.algorithm, file.content)
     /\ UNCHANGED <<tz, call, check>>

\* lines 34-37
SimpleFinish(r) ==
  LET c == simple[r]
      content == Join(c.lines, CRLF) \o CRLF
  IN /\ c.pc = "loop"
     /\ c.next > Len(c.files)
     /\ simple' = [simple EXCEPT ![r] =
          [IdleSimple EXCEPT !.pc = "done", !.algorithm = c.algorithm, !.files = c.files,
                    !.next = c.next,
                    !.result = [hash |-> hashBytes(oracle, Utf8Encode(content), c.algorithm),
                                content |-> content, entries |-> c.entries]]]
     /\ oracle' = OracleAdd(oracle, c.algorithm, Utf8Encode(content))
     /\ UNCHANGED <<tz, call, check>>

\* the first call, on any input
CreateSimpleProofset ==
  /\ simple[1].pc = "idle"
  /\ \A q \in Runs : call[q].pc = "idle"
  /\ check = NoCheck
  /\ \E algorithm \in Algorithms, files \in FileSeqs : SimpleStart(1, algorithm, files)

\* a second call once the first has returned: the same algorithm, and the same files
\* in any order or the same files with other modification times
CreateSimpleProofsetAgain ==
  /\ simple[1].pc = "done"
  /\ \E files \in Reorderings(simple[1].files) \cup Retimings(simple[1].files) :
       SimpleStart(2, simple[1].algorithm, files)

----------------------------------------------------------------------------
(* verify.ts *)

\* a call that threw the error e; a call that returned v
Threw(e) == [threw |-> e]
Returned(v) == [threw |-> "none", value |-> v]

\* inferAlgorithm with >= for the upper length
inferAlgorithmAtLeast(hexHash) ==
  IF Len(hexHash) = Sha256HexLen THEN Returned("SHA-256")
  ELSE IF Len(hexHash) >= Sha512HexLen THEN Returned("SHA-512")
  ELSE Threw("InvalidHashLength")

\* lines 12-16
inferAlgorithm(hexHash) ==
  IF Len(hexHash) = Sha256HexLen THEN Returned("SHA-256")
  ELSE IF Len(hexHash) = Sha512HexLen THEN Returned("SHA-512")
  ELSE Threw("InvalidHashLength")

\* line 33 with a case-sensitive comparison
SameHashExact(computed, stated) == computed = stated

\* lines 33, 45, 302: computed === stated.toLowerCase()
SameHash(computed, stated) == computed = toLowerCase(stated)

\* lines 22-34 with the line split at its last ": " instead of its first
verifyFileDetailsLineLastSeparator(o, detailLine) ==
  LET found == {i \in 0..Len(detailLine) : MatchAt(detailLine, ColonSpace, i)}
      colonIdx == IF found = {} THEN -1 ELSE CHOOSE i \in found : \A j \in found : j <= i
      fileDetailsHash == Slice(detailLine, 0, colonIdx)
      fileDetails == SliceFrom(detailLine, colonIdx + 2)
      algorithm == inferAlgorithm(fileDetailsHash)
  IN IF colonIdx = -1 THEN Threw("MalformedLine")
     ELSE IF algorithm.threw # "none" THEN algorithm
     ELSE Returned([valid |-> SameHash(hashString(o, fileDetails, algorithm.value), fileDetailsHash),
                    fileDetailsHash |-> fileDetailsHash])

\* lines 22-34 with the detail string lower-cased before it is hashed
verifyFileDetailsLineFolded(o, detailLine) ==
  LET colonIdx == IndexOf(detailLine, ColonSpace)
      fileDetailsHash == Slice(detailLine, 0, colonIdx)
      fileDetails == toLowerCase(SliceFrom(detailLine, colonIdx + 2))
      algorithm == inferAlgorithm(fileDetailsHash)
  IN IF colonIdx = -1 THEN Threw("MalformedLine")
     ELSE IF algorithm.threw # "none" THEN algorithm
     ELSE Returned([valid |-> SameHash(hashString(o, fileDetails, algorithm.value), fileDetailsHash),
                    fileDetailsHash |-> fileDetailsHash])

\* lines 22-34
verifyFileDetailsLine(o, detailLine) ==
  LET colonIdx == IndexOf(detailLine, ColonSpace)
      fileDetailsHash == Slice(detailLine, 0, colonIdx)
      fileDetails == SliceFrom(detailLine, colonIdx + 2)
      algorithm == inferAlgorithm(fileDetailsHash)
  IN IF colonIdx = -1 THEN Threw("MalformedLine")
     ELSE IF algorithm.threw # "none" THEN algorithm
     ELSE Returned([valid |-> SameHash(hashString(o, fileDetails, algorithm.value), fileDetailsHash),
                    fileDetailsHash |-> fileDetailsHash])

\* lines 39-46
verifyHashsetHash(o, fileDetailsHashList, expectedHashsetHash) ==
  LET algorithm == inferAlgorithm(expectedHashsetHash)
  IN IF algorithm.threw # "none" THEN algorithm
     ELSE Returned(SameHash(hashBytes(o, Utf8Encode(fileDetailsHashList), algorithm.value),
                            expectedHashsetHash))

\* lines 51-54 without the filter(Boolean) that drops the empty strings
verifyFileDetailsHashInListUnfiltered(fileDetailsHash, fileDetailsHashList) ==
  LET hashes == Split(fileDetailsHashList, CRLF)
  IN Returned(\E i \in 1..Len(hashes) : toLowerCase(hashes[i]) = toLowerCase(fileDetailsHash))

\* lines 51-54
verifyFileDetailsHashInList(fileDetailsHash, fileDetailsHashList) ==
  LET hashes == FilterNonEmpty(Split(fileDetailsHashList, CRLF))
  IN Returned(\E i \in 1..Len(hashes) : toLowerCase(hashes[i]) = toLowerCase(fileDetailsHash))

\* lines 122-132
verifyFileContentHash(o, fileBytes, expectedContentHash) ==
  LET algorithm == inferAlgorithm(expectedContentHash)
      computedHash == hashBytes(o, fileBytes, algorithm.value)
  IN IF algorithm.threw # "none" THEN algorithm
     ELSE Returned([match |-> toLowerCase(computedHash) = toLowerCase(expectedContentHash),
                    computedHash |-> computedHash])

\* lines 296-303
verifySimpleProofsetHash(o, content, expectedHash) ==
  LET algorithm == inferAlgorithm(expectedHash)
  IN IF algorithm.threw # "none" THEN algorithm
     ELSE Returned(SameHash(hashBytes(o, Utf8Encode(content), algorithm.value), expectedHash))

\* the white space String.prototype.trim removes, among the ASCII characters
IsWhitespace(c) == c \in {Tab, LF, LF + 1, LF + 2, CR, SP}

RECURSIVE TrimStart(_)
TrimStart(s) == IF s # <<>> /\ IsWhitespace(Head(s)) THEN TrimStart(Tail(s)) ELSE s

RECURSIVE TrimEnd(_)
TrimEnd(s) ==
  IF s # <<>> /\ IsWhitespace(s[Len(s)]) THEN TrimEnd(SubSeq(s, 1, Len(s) - 1)) ELSE s

\* s.trim()
Trim(s) == TrimEnd(TrimStart(s))

\* lines 70-97 without the trim() of the path
parseFileDetailsLineUntrimmed(detailLine) ==
  LET colonIdx == IndexOf(detailLine, ColonSpace)
      fileDetailsHash == Slice(detailLine, 0, colonIdx)
      fileDetails == SliceFrom(detailLine, colonIdx + 2)
      parts == Split(fileDetails, <<SP>>)
      filePath == Join(SubSeq(parts, 4, Len(parts)), <<SP>>)
  IN IF colonIdx = -1 THEN Threw("MalformedLine")
     ELSE IF Len(parts) < 4 THEN Threw("MalformedDetailItem")
     ELSE IF Len(filePath) = 0 THEN Threw("EmptyPath")
     ELSE Returned([fileDetailsHash |-> fileDetailsHash, fileSecret |-> parts[1],
                    modifiedTimeUtc |-> parts[2], fileContentHash |-> parts[3],
                    filePath |-> filePath])

\* lines 70-97 with the empty pieces between consecutive spaces dropped
parseFileDetailsLineCollapsing(detailLine) ==
  LET colonIdx == IndexOf(detailLine, ColonSpace)
      fileDetailsHash == Slice(detailLine, 0, colonIdx)
      fileDetails == SliceFrom(detailLine, colonIdx + 2)
      parts == FilterNonEmpty(Split(fileDetails, <<SP>>))
      filePath == Trim(Join(SubSeq(parts, 4, Len(parts)), <<SP>>))
  IN IF colonIdx = -1 THEN Threw("MalformedLine")
     ELSE IF Len(parts) < 4 THEN Threw("MalformedDetailItem")
     ELSE IF Len(filePath) = 0 THEN Threw("EmptyPath")
     ELSE Returned([fileDetailsHash |-> fileDetailsHash, fileSecret |-> parts[1],
                    modifiedTimeUtc |-> parts[2], fileContentHash |-> parts[3],
                    filePath |-> filePath])

\* lines 70-97
parseFileDetailsLine(detailLine) ==
  LET colonIdx == IndexOf(detailLine, ColonSpace)
      fileDetailsHash == Slice(detailLine, 0, colonIdx)
      fileDetails == SliceFrom(detailLine, colonIdx + 2)
      parts == Split(fileDetails, <<SP>>)
      filePath == Trim(Join(SubSeq(parts, 4, Len(parts)), <<SP>>))
  IN IF colonIdx = -1 THEN Threw("MalformedLine")
     ELSE IF Len(parts) < 4 THEN Threw("MalformedDetailItem")
     ELSE IF Len(filePath) = 0 THEN Threw("EmptyPath")
     ELSE Returned([fileDetailsHash |-> fileDetailsHash, fileSecret |-> parts[1],
                    modifiedTimeUtc |-> parts[2], fileContentHash |-> parts[3],
                    filePath |-> filePath])

\* lines 138-140
normalizePath(p) == [i \in 1..Len(p) |-> IF p[i] = Backslash THEN Slash ELSE p[i]]

\* A Map is the sequence of its <<key, value>> entries in insertion order.
MapHas(m, k) == \E i \in 1..Len(m) : m[i][1] = k
\* m.get(k), Undefined when the key is absent
MapGet(m, k) == IF MapHas(m, k) THEN m[CHOOSE i \in 1..Len(m) : m[i][1] = k][2] ELSE Undefined
\* m.set(k, v): a new key goes last, a known key keeps its place
MapSet(m, k, v) ==
  IF MapHas(m, k) THEN [i \in 1..Len(m) |-> IF m[i][1] = k THEN <<k, v>> ELSE m[i]]
  ELSE Append(m, <<k, v>>)

RECURSIVE StripAndLookup(_, _)
\* lines 159-167: leading segments are stripped one at a time
StripAndLookup(remaining, fileContentHashes) ==
  LET slashIdx == IndexOf(remaining, <<Slash>>)
      rest == SliceFrom(remaining, slashIdx + 1)
  IN IF slashIdx = -1 THEN Undefined
     ELSE IF Len(rest) = 0 THEN Undefined
     ELSE IF MapHas(fileContentHashes, rest) THEN MapGet(fileContentHashes, rest)
     ELSE StripAndLookup(rest, fileContentHashes)

\* the part of a path after its last '/'
FileNameOf(mapPath) ==
  LET slashes == {i \in 1..Len(mapPath) : mapPath[i] = Slash}
  IN IF slashes = {} THEN mapPath
     ELSE SubSeq(mapPath, (CHOOSE i \in slashes : \A k \in slashes : k <= i) + 1, Len(mapPath))

\* lines 172-178: the first observed path whose file name is the entry path
FileNameLookup(entryPath, fileContentHashes) ==
  LET hits == {i \in 1..Len(fileContentHashes) : FileNameOf(fileContentHashes[i][1]) = entryPath}
  IN IF hits = {} THEN Undefined
     ELSE fileContentHashes[CHOOSE i \in hits : \A k \in hits : i <= k][2]

\* lines 150-181 with the suffixes tried before the whole path
lookupBySuffixSuffixFirst(entryPath, fileContentHashes) ==
  IF StripAndLookup(entryPath, fileContentHashes) # Undefined
  THEN StripAndLookup(entryPath, fileContentHashes)
  ELSE IF MapHas(fileContentHashes, entryPath) THEN MapGet(fileContentHashes, entryPath)
  ELSE IF IndexOf(entryPath, <<Slash>>) = -1 THEN FileNameLookup(entryPath, fileContentHashes)
  ELSE Undefined

\* lines 150-181
lookupBySuffix(entryPath, fileContentHashes) ==
  IF MapHas(fileContentHashes, entryPath) THEN MapGet(fileContentHashes, entryPath)
  ELSE IF StripAndLookup(entryPath, fileContentHashes) # Undefined
       THEN StripAndLookup(entryPath, fileContentHashes)
  ELSE IF IndexOf(entryPath, <<Slash>>) = -1 THEN FileNameLookup(entryPath, fileContentHashes)
  ELSE Undefined

\* the error of the first line that does not parse, "none" when all parse
FirstParseError(detailLines) ==
  LET bad == {i \in 1..Len(detailLines) : parseFileDetailsLine(detailLines[i]).threw # "none"}
  IN IF bad = {} THEN "none"
     ELSE parseFileDetailsLine(detailLines[CHOOSE i \in bad : \A k \in bad : i <= k]).threw

\* lines 200-215 with the two hashes compared as they are written
MatchByPathExactCase(line, fileContentHashes) ==
  LET parsed == parseFileDetailsLine(line).value
      computedHash == lookupBySuffix(normalizePath(parsed.filePath), fileContentHashes)
  IN IF computedHash = Undefined THEN [parsed |-> parsed, status |-> "not_found"]
     ELSE [parsed |-> parsed,
           status |-> IF computedHash = parsed.fileContentHash THEN "match" ELSE "mismatch",
           computedHash |-> computedHash]

\* lines 200-215: the result for one line
MatchByPath(line, fileContentHashes) ==
  LET parsed == parseFileDetailsLine(line).value
      computedHash == lookupBySuffix(normalizePath(parsed.filePath), fileContentHashes)
  IN IF computedHash = Undefined THEN [parsed |-> parsed, status |-> "not_found"]
     ELSE [parsed |-> parsed,
           status |-> IF toLowerCase(computedHash) = toLowerCase(parsed.fileContentHash)
                      THEN "match" ELSE "mismatch",
           computedHash |-> computedHash]

\* lines 196-216
matchDetailEntriesByPath(detailLines, fileContentHashes) ==
  IF FirstParseError(detailLines) # "none" THEN Threw(FirstParseError(detailLines))
  ELSE Returned([i \in 1..Len(detailLines) |-> MatchByPath(detailLines[i], fileContentHashes)])

\* lines 230-244 with the stated content hash looked up as it is written
MatchByHashExactCase(line, hashToFiles) ==
  LET parsed == parseFileDetailsLine(line).value
      matchedFiles == MapGet(hashToFiles, parsed.fileContentHash)
  IN IF ~MapHas(hashToFiles, parsed.fileContentHash) \/ Len(matchedFiles) = 0
     THEN [parsed |-> parsed, status |-> "not_found"]
     ELSE [parsed |-> parsed, status |-> "match", matchedFiles |-> matchedFiles]

\* lines 230-244: the result for one line
MatchByHash(line, hashToFiles) ==
  LET parsed == parseFileDetailsLine(line).value
      matchedFiles == MapGet(hashToFiles, toLowerCase(parsed.fileContentHash))
  IN IF ~MapHas(hashToFiles, toLowerCase(parsed.fileContentHash)) \/ Len(matchedFiles) = 0
     THEN [parsed |-> parsed, status |-> "not_found"]
     ELSE [parsed |-> parsed, status |-> "match", matchedFiles |-> matchedFiles]

\* lines 226-245
matchDetailEntriesByHash(detailLines, hashToFiles) ==
  IF FirstParseError(detailLines) # "none" THEN Threw(FirstParseError(detailLines))
  ELSE Returned([i \in 1..Len(detailLines) |-> MatchByHash(detailLines[i], hashToFiles)])

RECURSIVE SplitLines(_)
\* s.split(/\r?\n/): s is cut at every "\n", and a "\r" just before the cut goes
\* with it
SplitLines(s) ==
  LET i == IndexOf(s, <<LF>>)
      cut == IF i > 0 /\ s[i] = CR THEN i - 1 ELSE i
  IN IF i = -1 THEN <<s>>
     ELSE <<Slice(s, 0, cut)>> \o SplitLines(SliceFrom(s, i + 1))

\* DETAIL_LINE_RE matching only hex runs of exactly 64 or exactly 128 characters
DETAIL_LINE_RE_EitherLength(line) ==
  \E n \in {Sha256HexLen, Sha512HexLen} :
    /\ n + 2 <= Len(line)
    /\ line[n + 1] = Colon /\ line[n + 2] = SP
    /\ \A k \in 1..n : IsHexChar(line[k])

\* line 57: DETAIL_LINE_RE.test(line) for /^[0-9a-fA-F]{64,128}: /
DETAIL_LINE_RE(line) ==
  \E n \in Sha256HexLen..Sha512HexLen :
    /\ n + 2 <= Len(line)
    /\ line[n + 1] = Colon /\ line[n + 2] = SP
    /\ \A k \in 1..n : IsHexChar(line[k])

\* lines 62-64
extractDetailLines(content) == Returned(SelectSeq(SplitLines(content), DETAIL_LINE_RE))

\* line 252: SIMPLE_LINE_RE.test(line) for /^[0-9a-fA-F]{64,128} \d{8}-\d{6} .+$/;
\* the '.' matches any character but a line terminator
SIMPLE_LINE_RE(line) ==
  \E n \in Sha256HexLen..Sha512HexLen :
    /\ n + 18 <= Len(line)
    /\ line[n + 1] = SP /\ line[n + 10] = Hyphen /\ line[n + 17] = SP
    /\ \A k \in 1..n : IsHexChar(line[k])
    /\ \A k \in (n + 2..n + 9) \cup (n + 11..n + 16) : IsDecDigit(line[k])
    /\ \A k \in n + 18..Len(line) : line[k] \notin {LF, CR}

\* lines 258-265 with the pattern tried on every non-empty line, not on the first
isSimpleProofsetFormatAnyLine(content) ==
  LET lines == FilterNonEmpty(SplitLines(content))
  IN Returned(\E i \in 1..Len(lines) : ~DETAIL_LINE_RE(lines[i]) /\ SIMPLE_LINE_RE(lines[i]))

\* lines 258-265
isSimpleProofsetFormat(content) ==
  LET lines == FilterNonEmpty(SplitLines(content))
  IN IF Len(lines) = 0 THEN Returned(FALSE)
     ELSE IF DETAIL_LINE_RE(lines[1]) THEN Returned(FALSE)
     ELSE Returned(SIMPLE_LINE_RE(lines[1]))

\* lines 272-283 with the file name taken after the last space
parseSimpleProofsetLineLastSpace(line) ==
  LET found == {i \in 0..Len(line) - 1 : line[i + 1] = SP}
      firstSpace == IndexOf(line, <<SP>>)
      secondSpace == IF Cardinality(found) < 2 THEN -1
                     ELSE CHOOSE i \in found : \A j \in found : j <= i
  IN IF firstSpace = -1 THEN Threw("MissingFields")
     ELSE IF secondSpace = -1 THEN Threw("MissingFilename")
     ELSE Returned([contentHash |-> Slice(line, 0, firstSpace),
                    modifiedTimeUtc |-> Slice(line, firstSpace + 1, secondSpace),
                    fileName |-> SliceFrom(line, secondSpace + 1)])

\* lines 272-283
parseSimpleProofsetLine(line) ==
  LET firstSpace == IndexOf(line, <<SP>>)
      secondSpace == IndexOfFrom(line, <<SP>>, firstSpace + 1)
  IN IF firstSpace = -1 THEN Threw("MissingFields")
     ELSE IF secondSpace = -1 THEN Threw("MissingFilename")
     ELSE Returned([contentHash |-> Slice(line, 0, firstSpace),
                    modifiedTimeUtc |-> Slice(line, firstSpace + 1, secondSpace),
                    fileName |-> SliceFrom(line, secondSpace + 1)])

\* lines 99-101 with bare line feeds for the line ends
buildHashListFromDetailLinesLf(lines) ==
  Join([i \in 1..Len(lines) |-> Split(lines[i], ColonSpace)[1]], <<LF>>) \o <<LF>>

\* lines 99-101
buildHashListFromDetailLines(lines) ==
  Join([i \in 1..Len(lines) |-> Split(lines[i], ColonSpace)[1]], CRLF) \o CRLF

\* line 106: /^[0-9a-fA-F]{64}$|^[0-9a-fA-F]{128}$/
HASH_LINE_RE(line) ==
  /\ Len(line) \in {Sha256HexLen, Sha512HexLen}
  /\ \A k \in 1..Len(line) : IsHexChar(line[k])

\* lines 112-116
isValidHashListFormat(content) ==
  LET lines == FilterNonEmpty(SplitLines(content))
  IN IF Len(lines) = 0 THEN Returned(FALSE)
     ELSE Returned(\A i \in 1..Len(lines) : HASH_LINE_RE(lines[i]))

\* lines 288-290
extractSimpleProofsetLines(content) == Returned(FilterNonEmpty(SplitLines(content)))

----------------------------------------------------------------------------
(* Verifier calls.  Once a creation call has returned, a verifier is called on   *)
(* what it returned or on a variation of it; a second call may follow on the     *)
(* first call's input with one of its hex values upper-cased.                    *)

\* the detail lines of a returned proofset
ResultLines(res) == FilterNonEmpty(Split(res.fileDetailsLineList, CRLF))

\* n copies of the character c
Repeat(c, n) == [i \in 1..n |-> c]

\* a hash h and variations of it: upper-cased, one character short, one character
\* long, cut to the SHA-256 length, empty
HashInputs(h) ==
  {h, toUpperCase(h), Slice(h, 0, Len(h) - 1), h \o <<Digit0>>, Slice(h, 0, Sha256HexLen), <<>>}

\* a detail line and variations of it: the hash part varied, the separator removed
LineInputs(line) ==
  LET colonIdx == IndexOf(line, ColonSpace)
      hash == Slice(line, 0, colonIdx)
      body == SliceFrom(line, colonIdx + 2)
  IN {DetailLine(h, body) : h \in HashInputs(hash)} \cup {hash \o body}

\* s with its first n characters upper-cased
UpperPrefix(s, n) == toUpperCase(SubSeq(s, 1, n)) \o SubSeq(s, n + 1, Len(s))

\* a detail line with the k-th space-separated field of its detail string upper-cased
UpperField(line, k) ==
  LET colonIdx == IndexOf(line, ColonSpace)
      hash == Slice(line, 0, colonIdx)
      parts == Split(SliceFrom(line, colonIdx + 2), <<SP>>)
  IN IF colonIdx = -1 \/ Len(parts) < k THEN line
     ELSE DetailLine(hash, Join([i \in 1..Len(parts) |->
                                   IF i = k THEN toUpperCase(parts[i]) ELSE parts[i]], <<SP>>))

\* the files a verifying user holds, as <<path, bytes>> pairs: those of the call
\* under their normalised paths, with every content replaced by `other` when the
\* files were changed
RECURSIVE HeldFiles(_, _)
HeldFiles(files, changed) ==
  IF files = <<>> THEN <<>>
  ELSE LET f == Head(files)
       IN <<<<normalizePath(IF Truthy(f.fullPath) THEN f.fullPath ELSE f.relativePath),
              IF changed THEN <<Digit0>> ELSE f.content>>>> \o HeldFiles(Tail(files), changed)

RECURSIVE OracleAddAll(_, _, _)
\* the oracle after the contents of the held files are digested
OracleAddAll(o, alg, held) ==
  IF held = <<>> THEN o ELSE OracleAddAll(OracleAdd(o, alg, Head(held)[2]), alg, Tail(held))

RECURSIVE PathToHash(_, _, _)
\* cli/verify.ts: the map from each held file's path to its content hash
PathToHash(o, alg, held) ==
  IF held = <<>> THEN <<>>
  ELSE MapSet(PathToHash(o, alg, SubSeq(held, 1, Len(held) - 1)),
              held[Len(held)][1], hashBytes(o, held[Len(held)][2], alg))

RECURSIVE HashToPaths(_, _, _)
\* cli/verify.ts: the map from each content hash to the held paths with that content
HashToPaths(o, alg, held) ==
  IF held = <<>> THEN <<>>
  ELSE LET m == HashToPaths(o, alg, SubSeq(held, 1, Len(held) - 1))
           h == hashBytes(o, held[Len(held)][2], alg)
       IN MapSet(m, h, (IF MapHas(m, h) THEN MapGet(m, h) ELSE <<>>) \o <<held[Len(held)][1]>>)

\* what a verifier returns on an input
Apply(o, fn, in) ==
  CASE fn = "inferAlgorithm" -> inferAlgorithm(in.hexHash)
    [] fn = "verifyFileDetailsLine" -> verifyFileDetailsLine(o, in.detailLine)
    [] fn = "verifyHashsetHash" -> verifyHashsetHash(o, in.list, in.expected)
    [] fn = "verifyFileDetailsHashInList" -> verifyFileDetailsHashInList(in.target, in.list)
    [] fn = "verifyFileContentHash" -> verifyFileContentHash(o, in.bytes, in.expected)
    [] fn = "verifySimpleProofsetHash" -> verifySimpleProofsetHash(o, in.content, in.expected)
    [] fn = "matchDetailEntriesByPath" -> matchDetailEntriesByPath(in.lines, in.observed)
    [] fn = "matchDetailEntriesByHash" -> matchDetailEntriesByHash(in.lines, in.observed)
    [] fn = "extractDetailLines" -> extractDetailLines(in.content)
    [] fn = "parseFileDetailsLine" -> parseFileDetailsLine(in.detailLine)
    [] fn = "isSimpleProofsetFormat" -> isSimpleProofsetFormat(in.content)
    [] fn = "extractSimpleProofsetLines" -> extractSimpleProofsetLines(in.content)
    [] fn = "parseSimpleProofsetLine" -> parseSimpleProofsetLine(in.line)
    [] fn = "isValidHashListFormat" -> isValidHashListFormat(in.content)
    [] fn = "buildHashListFromDetailLines" -> Returned(buildHashListFromDetailLines(in.lines))

\* the bytes a verifier digests on an input, once it has inferred the algorithm from
\* the stated hash; for a detail line, the text after the stated hash and ": "
DigestedBy(fn, in, stated) ==
  CASE fn = "verifyFileDetailsLine" -> Utf8Encode(SliceFrom(in.detailLine, Len(stated) + 2))
    [] fn = "verifyHashsetHash" -> Utf8Encode(in.list)
    [] fn = "verifyFileContentHash" -> in.bytes
    [] fn = "verifySimpleProofsetHash" -> Utf8Encode(in.content)
    [] OTHER -> <<>>

\* the oracle after a verifier has run: it digests when it has inferred an algorithm
OracleAfter(o, fn, in, out) ==
  IF fn \in {"verifyFileDetailsLine", "verifyHashsetHash", "verifyFileContentHash",
             "verifySimpleProofsetHash"} /\ out.threw = "none"
  THEN LET stated == IF fn = "verifyFileDetailsLine" THEN out.value.fileDetailsHash
                     ELSE in.expected
       IN OracleAdd(o, inferAlgorithm(stated).value, DigestedBy(fn, in, stated))
  ELSE o

\* the verifier fn is called on the input in
Call(o, fn, in, how, note) ==
  /\ \E out \in {Apply(o, fn, in)} :
        /\ check' = Append(check, [fn |-> fn, in |-> in, how |-> how, note |-> note,
                                   out |-> out])
        /\ oracle' = OracleAfter(o, fn, in, out)
  /\ UNCHANGED <<tz, call, simple>>

Checkable(c) == c.pc = "done" /\ Len(check) = 0

CheckInferAlgorithm ==
  /\ Len(check) = 0
  /\ \A r \in Runs : call[r].pc = "idle" /\ simple[r].pc = "idle"
  /\ \E c \in {LowerF, UpperX}, n \in 0..(Sha512HexLen + MaxExtraLen) :
        Call(oracle, "inferAlgorithm", [hexHash |-> Repeat(c, n)], "input", <<>>)

CheckVerifyFileDetailsLine ==
  /\ Checkable(call[1])
  /\ \E lines \in {ResultLines(call[1].result)} :
        \E i \in 1..Len(lines) : \E line \in LineInputs(lines[i]) :
          Call(oracle, "verifyFileDetailsLine", [detailLine |-> line],
               IF line = lines[i] THEN "created" ELSE "input", <<>>)

\* detail strings written by hand: single spaces, the legacy two spaces before the
\* path, a ": " inside the secret, no text at all
CraftedDetails ==
  {<<115, SP, 116, SP, 99, SP, 112>>, <<115, SP, 116, SP, 99, SP, SP, 112>>,
   <<115, Colon, SP, 116, SP, 99, SP, 112>>, <<>>}

\* a line is written by hand: the digest of one of the detail strings, or a variation
\* of it, then ": " or a bare ":", then a detail string
CheckCraftedLine ==
  /\ Len(check) = 0
  /\ \A r \in Runs : call[r].pc = "idle" /\ simple[r].pc = "idle"
  /\ \E algorithm \in Algorithms, hashed \in CraftedDetails, fileDetails \in CraftedDetails :
       \E o \in {OracleAdd(oracle, algorithm, Utf8Encode(hashed))} :
         \E stated \in HashInputs(hashString(o, hashed, algorithm)),
            separator \in {ColonSpace, <<Colon>>} :
           Call(o, "verifyFileDetailsLine",
                [detailLine |-> stated \o separator \o fileDetails], "input", <<>>)

\* short hex strings in the place of hashes: "ab", "AB", "cd", and the empty string
CraftedHashes == {<<LowerA, LowerA + 1>>, <<UpperA, UpperA + 1>>, <<LowerA + 2, LowerA + 3>>, <<>>}

\* the sequences of at most MaxSegments hand-written hashes
CraftedSegments == UNION {[1..n -> CraftedHashes] : n \in 0..MaxSegments}

\* a hash list is written by hand: hashes joined by "\r\n" or by a bare "\n", with
\* or without a closing "\r\n"; any of the hashes is looked up in it
CheckCraftedHashList ==
  /\ Len(check) = 0
  /\ \A r \in Runs : call[r].pc = "idle" /\ simple[r].pc = "idle"
  /\ \E segments \in CraftedSegments, separator \in {CRLF, <<LF>>}, closing \in {CRLF, <<>>},
        target \in CraftedHashes :
       Call(oracle, "verifyFileDetailsHashInList",
            [target |-> target, list |-> Join(segments, separator) \o closing], "input", <<>>)

\* a run of n hex digits of all three kinds: 'A', '9' and 'f' in turn
HexRun(n) == [i \in 1..n |-> IF i % 3 = 1 THEN UpperA ELSE IF i % 3 = 2 THEN Digit0 + 9 ELSE LowerF]

\* the lines a legacy details file is made of: a header or footer line "h: x", a
\* detail line with a 64-digit hash
CommonLines == {<<104, Colon, SP, 120>>, HexRun(Sha256HexLen) \o <<Colon, SP, 100>>}

\* lines at the edges of the detail-line pattern: hex runs of 63, 65, 128 and 129
\* digits before the ": ", a bare ":" after the run, a 'g' within the run, a space
\* before the run; and the empty line
EdgeLines ==
  {HexRun(n) \o <<Colon, SP, 100>> : n \in {Sha256HexLen - 1, Sha256HexLen + 1, Sha512HexLen,
                                           Sha512HexLen + 1}}
    \cup {HexRun(Sha256HexLen) \o <<Colon, 100>>,
          [HexRun(Sha256HexLen) EXCEPT ![2] = LowerF + 1] \o <<Colon, SP, 100>>,
          <<SP>> \o HexRun(Sha256HexLen) \o <<Colon, SP, 100>>,
          <<>>}

\* the line sequences of a hand-written details file: at most MaxContentLines common
\* lines, at most one of them replaced by an edge line
ContentLines ==
  UNION {{lines} \cup {[lines EXCEPT ![i] = e] : i \in 1..Len(lines), e \in EdgeLines} :
           lines \in UNION {[1..n -> CommonLines] : n \in 0..MaxContentLines}}

\* a details file is written by hand, its lines ended by "\r\n" or all by "\n", the
\* last line ended or not, and its detail lines are extracted
CheckExtractDetailLines ==
  /\ Len(check) = 0
  /\ \A r \in Runs : call[r].pc = "idle" /\ simple[r].pc = "idle"
  /\ \E lines \in ContentLines, ending \in {CRLF, <<LF>>}, closing \in BOOLEAN :
       Call(oracle, "extractDetailLines",
            [content |-> Join(lines, ending) \o (IF closing THEN ending ELSE <<>>)],
            "input", [lines |-> lines])

\* the texts between the spaces of a hand-written detail string: "a", "b", a tab,
\* and nothing (two spaces in a row)
CraftedPieces == {<<97>>, <<98>>, <<Tab>>, <<>>}

\* a detail line is written by hand - "h", then ": " or nothing, then up to MaxPieces
\* pieces joined by single spaces - and parsed
CheckParseFileDetailsLine ==
  /\ Len(check) = 0
  /\ \A r \in Runs : call[r].pc = "idle" /\ simple[r].pc = "idle"
  /\ \E n \in 1..MaxPieces, separator \in {ColonSpace, <<>>} :
       \E pieces \in [1..n -> CraftedPieces] :
         Call(oracle, "parseFileDetailsLine",
              [detailLine |-> <<104>> \o separator \o Join(pieces, <<SP>>)],
              "input", [pieces |-> pieces])

\* the line just parsed is parsed again as a legacy writer would have written it: with
\* one more space before the path
CheckParseLegacySpacing ==
  /\ Len(check) = 1
  /\ check[1].fn = "parseFileDetailsLine"
  /\ Len(check[1].note.pieces) >= 4
  /\ \E pieces \in {SubSeq(check[1].note.pieces, 1, 3) \o <<<<>>>>
                      \o SubSeq(check[1].note.pieces, 4, Len(check[1].note.pieces))} :
       Call(oracle, "parseFileDetailsLine",
            [detailLine |-> SubSeq(check[1].in.detailLine, 1,
                                   Len(check[1].in.detailLine)
                                     - Len(Join(check[1].note.pieces, <<SP>>)))
                              \o Join(pieces, <<SP>>)],
            "legacy", [pieces |-> pieces])

\* the paths of hand-written detail lines: "f", "d/f", the legacy "c\d\f", and "d/"
EntryPaths ==
  {<<102>>, <<100, Slash, 102>>, <<99, Backslash, 100, Backslash, 102>>, <<100, Slash>>}

\* the paths of the files held: "f", "d/f", "c/d/f", "e/f"
ObservedPaths ==
  {<<102>>, <<100, Slash, 102>>, <<99, Slash, 100, Slash, 102>>, <<101, Slash, 102>>}

\* the sequences of at most MaxEntries different members of S
DistinctSeqs(S) ==
  UNION {{q \in [1..n -> S] : \A i, j \in 1..n : q[i] = q[j] => i = j} : n \in 0..MaxEntries}

\* a hand-written detail line "h: s t <content hash> <path>"
CraftedEntry(contentHash, filePath) ==
  DetailLine(<<104>>, buildFileDetails(<<115>>, <<116>>, contentHash, filePath))

\* hand-written detail lines, all stating the content hash "a" or all "B", are
\* matched by path against files held whose content hashes are "a" and "b" in turn
CheckCraftedMatchByPath ==
  /\ Len(check) = 0
  /\ \A r \in Runs : call[r].pc = "idle" /\ simple[r].pc = "idle"
  /\ \E paths \in DistinctSeqs(EntryPaths), stated \in {<<LowerA>>, <<UpperA + 1>>},
        held \in DistinctSeqs(ObservedPaths), first \in {0, 1} :
       /\ paths # <<>>
       /\ Call(oracle, "matchDetailEntriesByPath",
               [lines |-> [i \in 1..Len(paths) |-> CraftedEntry(stated, paths[i])],
                observed |-> [i \in 1..Len(held) |-> <<held[i], <<LowerA + ((first + i) % 2)>>>>]],
               "input", [paths |-> paths, stated |-> stated])

RECURSIVE GroupByHash(_)
\* cli/verify.ts: the map from each content hash to the paths of the files held with
\* that hash, for files given as <<path, hash>> pairs
GroupByHash(held) ==
  IF held = <<>> THEN <<>>
  ELSE LET m == GroupByHash(SubSeq(held, 1, Len(held) - 1))
           h == held[Len(held)][2]
       IN MapSet(m, h, (IF MapHas(m, h) THEN MapGet(m, h) ELSE <<>>) \o <<held[Len(held)][1]>>)

\* hand-written detail lines, all stating the content hash "a" or all "B", are
\* matched by content hash against files held whose content hashes are "a" or "b"
CheckCraftedMatchByHash ==
  /\ Len(check) = 0
  /\ \A r \in Runs : call[r].pc = "idle" /\ simple[r].pc = "idle"
  /\ \E paths \in DistinctSeqs(EntryPaths), stated \in {<<LowerA>>, <<UpperA + 1>>},
        heldPaths \in DistinctSeqs(ObservedPaths) :
       \E hashes \in [1..Len(heldPaths) -> {<<LowerA>>, <<LowerA + 1>>}] :
         \E held \in {[i \in 1..Len(heldPaths) |-> <<heldPaths[i], hashes[i]>>]} :
           /\ paths # <<>>
           /\ Call(oracle, "matchDetailEntriesByHash",
                   [lines |-> [i \in 1..Len(paths) |-> CraftedEntry(stated, paths[i])],
                    observed |-> GroupByHash(held)],
                   "input", [paths |-> paths, stated |-> stated, held |-> held])

\* the timestamp of a simple line, and texts that are not quite one: a digit short,
\* a digit long, a letter for a digit, a space for the hyphen
Stamps ==
  LET stamp == formatModifiedTime(Date1)
  IN {stamp, Tail(stamp), stamp \o <<Digit0>>, [stamp EXCEPT ![3] = 120],
      [stamp EXCEPT ![9] = SP]}

\* the first lines of hand-written files: simple lines "<hex> <stamp> f" with hex runs
\* of 63 to 129 digits and with each of the stamps; a simple line with a space in the
\* file name, with an empty file name, without a file name, without a stamp, with a
\* space before it; a chained detail line; a legacy header line
FirstLines ==
  {HexRun(n) \o <<SP>> \o formatModifiedTime(Date1) \o <<SP, 102>> :
     n \in {Sha256HexLen - 1, Sha256HexLen + 1, Sha512HexLen, Sha512HexLen + 1}}
    \cup {HexRun(Sha256HexLen) \o <<SP>> \o stamp \o <<SP, 102>> : stamp \in Stamps}
    \cup {HexRun(Sha256HexLen) \o <<SP>> \o formatModifiedTime(Date1) \o name :
            name \in {<<SP, 102, SP, 103>>, <<SP>>, <<>>}}
    \cup {HexRun(Sha256HexLen) \o <<SP, 102>>,
          <<SP>> \o HexRun(Sha256HexLen) \o <<SP>> \o formatModifiedTime(Date1) \o <<SP, 102>>}
    \cup CommonLines

\* cli/verify.ts lines 143-145: the verify command reads the details file - here a
\* hand-written one: perhaps an empty line, a first line, perhaps a simple or a detail
\* line after it - and tests it for the simple format
VerifyCommandDetect ==
  /\ Len(check) = 0
  /\ \A r \in Runs : call[r].pc = "idle" /\ simple[r].pc = "idle"
  /\ \E blank \in {<<>>, <<<<>>>>}, first \in {<<>>} \cup {<<l>> : l \in FirstLines},
        second \in {<<>>} \cup {<<l>> : l \in CommonLines}
                  \cup {<<HexRun(Sha256HexLen) \o <<SP>> \o formatModifiedTime(Date1) \o <<SP, 102>>>>},
        ending \in {CRLF, <<LF>>} :
       \E lines \in {blank \o first \o second} :
         Call(oracle, "isSimpleProofsetFormat",
              [content |-> Join(lines, ending) \o (IF lines = <<>> THEN <<>> ELSE ending)],
              "command", [lines |-> lines])

\* cli/verify.ts lines 146-252 and 255-259: the command goes on to read the file as a
\* simple proofset when the test said so, and as a chained details file when not
VerifyCommandParse ==
  /\ Len(check) = 1
  /\ check[1].fn = "isSimpleProofsetFormat"
  /\ Call(oracle,
          IF check[1].out.value THEN "extractSimpleProofsetLines" ELSE "extractDetailLines",
          check[1].in, "command", check[1].note)

\* paths with white space in them: "b  c", " b", and "b" with a tab after it
PathB2C == <<98, SP, SP, 99>>
PathLead == <<SP, 98>>
PathTrail == <<98, Tab>>

\* a file with two spaces in a row in its name
FileS == [relativePath |-> PathB2C, fullPath |-> Undefined, modifiedTime |-> Date1, content |-> ContentX]
\* a file whose name ends with a tab and whose full path begins with a space
FileT == [relativePath |-> PathTrail, fullPath |-> PathLead, modifiedTime |-> Date2, content |-> ContentY]

\* the sequences of up to MaxFiles of these files and of the file "d\b c"
SpacedFileSeqs ==
  UNION {{f \in [1..n -> {FileR, FileS, FileT}] : \A i, j \in 1..n : f[i] = f[j] => i = j} :
           n \in 0..MaxFiles}

\* createProofset is called on files with white space in their paths
CreateProofsetSpaced ==
  /\ call[1].pc = "idle"
  /\ \E seedPassword \in Seeds, algorithm \in Algorithms, files \in SpacedFileSeqs :
        Start(1, seedPassword, algorithm, files)

\* a detail line of the proofset created is parsed
CheckParseCreatedLine ==
  /\ Checkable(call[1])
  /\ \E lines \in {ResultLines(call[1].result)} :
       \E i \in 1..Len(lines) :
         Call(oracle, "parseFileDetailsLine", [detailLine |-> lines[i]], "created", i)

\* cli/verify.ts lines 305 and 321: the detail lines of the details file created are
\* extracted and the hash list is built from them
CheckBuildHashList ==
  /\ Checkable(call[1])
  /\ Call(oracle, "buildHashListFromDetailLines",
          [lines |-> extractDetailLines(call[1].result.fileDetailsLineList).value],
          "created", <<>>)

\* the lines of hand-written hash list files: hex runs of 64, 128 and 65 digits
HashListLines == {HexRun(Sha256HexLen), HexRun(Sha512HexLen), HexRun(Sha256HexLen + 1)}

\* cli/verify.ts lines 376-380: a hash list file, its lines all ended by "\r\n" or all
\* by "\n", the last line ended or not, is tested for the hash list format
CheckHashListFormat ==
  /\ Len(check) = 0
  /\ \A r \in Runs : call[r].pc = "idle" /\ simple[r].pc = "idle"
  /\ \E n \in 0..MaxSegments, ending \in {CRLF, <<LF>>}, closing \in BOOLEAN :
       \E hashes \in [1..n -> HashListLines] :
         Call(oracle, "isValidHashListFormat",
              [content |-> Join(hashes, ending) \o (IF closing THEN ending ELSE <<>>)],
              "input", [hashes |-> hashes])

\* cli/verify.ts lines 355-364: a hash that is a line of a file accepted as a hash
\* list is looked up in that file
CheckListedHash ==
  /\ Len(check) = 1
  /\ check[1].fn = "isValidHashListFormat"
  /\ check[1].out.value = TRUE
  /\ \E i \in 1..Len(check[1].note.hashes) :
       Call(oracle, "verifyFileDetailsHashInList",
            [target |-> check[1].note.hashes[i], list |-> check[1].in.content],
            "listed", i)

RECURSIVE SimpleFileStatuses(_, _)
\* cli/verify.ts lines 177-183: -f names a file; its hash is compared with every
\* entry's and the outcome stored under the entry's file name
SimpleFileStatuses(entries, fileHash) ==
  IF entries = <<>> THEN <<>>
  ELSE LET entry == entries[Len(entries)]
           isMatch == toLowerCase(fileHash) = toLowerCase(entry.contentHash)
       IN MapSet(SimpleFileStatuses(SubSeq(entries, 1, Len(entries) - 1), fileHash),
                 entry.fileName,
                 [status |-> IF isMatch THEN "PASS" ELSE "FAIL", computedHash |-> fileHash])

RECURSIVE SimpleDirStatuses(_, _)
\* cli/verify.ts lines 192-200: -f names a directory; an entry whose file name is
\* among the files hashed has the outcome stored under that name
SimpleDirStatuses(entries, fileHashByName) ==
  IF entries = <<>> THEN <<>>
  ELSE LET entry == entries[Len(entries)]
           before == SimpleDirStatuses(SubSeq(entries, 1, Len(entries) - 1), fileHashByName)
           computedHash == MapGet(fileHashByName, entry.fileName)
           isMatch == toLowerCase(computedHash) = toLowerCase(entry.contentHash)
       IN IF MapHas(fileHashByName, entry.fileName)
          THEN MapSet(before, entry.fileName,
                      [status |-> IF isMatch THEN "PASS" ELSE "FAIL",
                       computedHash |-> computedHash])
          ELSE before

\* cli/verify.ts lines 213-227: the status printed for an entry
SimpleStatusOf(entry, fileStatuses) ==
  IF ~MapHas(fileStatuses, entry.fileName) THEN "NOT FOUND"
  ELSE MapGet(fileStatuses, entry.fileName).status

\* the file names and contents of hand-written simple proofsets: "f" and "g"
SimpleNames == {<<102>>, <<103>>}
SimpleContents == {ContentX, ContentY}

\* what -f names: a file, or a directory of files with different names
SimpleTargets ==
  {[kind |-> "file", content |-> c] : c \in SimpleContents}
    \cup {[kind |-> "directory", files |-> held] :
            held \in UNION {{h \in [1..m -> SimpleNames \X SimpleContents] :
                               \A i, j \in 1..m : h[i][1] = h[j][1] => i = j} :
                            m \in 0..Cardinality(SimpleNames)}}

\* cli/verify.ts lines 145-247: the verify command is given a simple proofset of up
\* to MaxEntries entries, each the name and the hash of a content, and with -f a file
\* or a directory; it prints the root hash, a status per entry and the counts
VerifySimpleAgainstFiles ==
  /\ Len(check) = 0
  /\ \A r \in Runs : call[r].pc = "idle" /\ simple[r].pc = "idle"
  /\ \E algorithm \in Algorithms, n \in 1..MaxEntries, target \in SimpleTargets :
       \E o \in {OracleAdd(OracleAdd(oracle, algorithm, ContentX), algorithm, ContentY)} :
         \E written \in [1..n -> SimpleNames \X SimpleContents] :
           \E detailsContent \in
                {Join([i \in 1..n |-> SimpleLine(hashBytes(o, written[i][2], algorithm),
                                                 formatModifiedTime(Date1), written[i][1])],
                      CRLF) \o CRLF} :
             \E lines \in {extractSimpleProofsetLines(detailsContent).value} :
               \E entries \in {[i \in 1..Len(lines) |-> parseSimpleProofsetLine(lines[i]).value]} :
                 \E inferred \in {inferAlgorithm(entries[1].contentHash).value} :
                   \E fileStatuses \in
                        {IF target.kind = "file"
                         THEN SimpleFileStatuses(entries, hashBytes(o, target.content, inferred))
                         ELSE SimpleDirStatuses(entries, PathToHash(o, inferred, target.files))} :
                     \E statuses \in {[i \in 1..Len(entries) |->
                                          SimpleStatusOf(entries[i], fileStatuses)]} :
                       /\ isSimpleProofsetFormat(detailsContent).value
                       /\ check' =
                            <<[fn |-> "verifyCommandSimple",
                               in |-> [details |-> detailsContent, target |-> target],
                               how |-> "command", note |-> [entries |-> written],
                               out |-> [threw |-> "none",
                                        rootHash |-> hashBytes(o, Utf8Encode(detailsContent), inferred),
                                        statuses |-> statuses,
                                        matches |-> Cardinality({i \in 1..Len(statuses) : statuses[i] = "PASS"}),
                                        mismatches |-> Cardinality({i \in 1..Len(statuses) : statuses[i] = "FAIL"}),
                                        notFound |-> Cardinality({i \in 1..Len(statuses) : statuses[i] = "NOT FOUND"})]]>>
                       /\ oracle' = OracleAdd(o, inferred, Utf8Encode(detailsContent))
                       /\ UNCHANGED <<tz, call, simple>>

\* the detail strings of the details files handed to the verify command: "s t c p"
\* and "s t c q"
BatchDetails == <<<<115, SP, 116, SP, 99, SP, 112>>, <<115, SP, 116, SP, 99, SP, 113>>>>

\* the lines of those files: each detail string under its own digest, the first under
\* the digest of the second, the first under a run of 65 hex digits, and a header line
BatchLines(o, algorithm) ==
  {DetailLine(hashString(o, BatchDetails[i], algorithm), BatchDetails[i]) : i \in 1..2}
    \cup {DetailLine(hashString(o, BatchDetails[2], algorithm), BatchDetails[1]),
          DetailLine(HexRun(Sha256HexLen + 1), BatchDetails[1]),
          <<104, Colon, SP, 120>>}

\* an output line of the command: a fixed text and what is printed with it
Printed(text, arg) == [text |-> text, arg |-> arg]

\* cli/verify.ts lines 254-264 and 303-311: the verify command is given a details
\* file, with a hash list file (the hashes of the file's detail lines, or of all but
\* the first) or without one, and extracts the detail lines; without any it ends
VerifyCommandDetails ==
  /\ Len(check) = 0
  /\ \A r \in Runs : call[r].pc = "idle" /\ simple[r].pc = "idle"
  /\ \E algorithm \in Algorithms, n \in 0..MaxBatchLines :
       \E o \in {OracleAdd(OracleAdd(oracle, algorithm, Utf8Encode(BatchDetails[1])),
                            algorithm, Utf8Encode(BatchDetails[2]))} :
         \E written \in [1..n -> BatchLines(o, algorithm)] :
           \E lines \in {extractDetailLines(Join(written, CRLF) \o CRLF).value} :
             \E hashList \in {Undefined, buildHashListFromDetailLines(lines)}
                               \cup (IF lines = <<>> THEN {}
                                     ELSE {buildHashListFromDetailLines(Tail(lines))}) :
               /\ check' =
                    <<[fn |-> "verifyCommand",
                       in |-> [details |-> Join(written, CRLF) \o CRLF, hashList |-> hashList],
                       how |-> "command", note |-> [lines |-> written],
                       out |-> [pc |-> IF lines = <<>> THEN "exit" ELSE "lines",
                                lines |-> lines, next |-> 1, allValid |-> TRUE,
                                stdout |-> <<>>,
                                stderr |-> IF lines = <<>>
                                           THEN <<Printed("No detail lines found in file.", <<>>)>>
                                           ELSE <<>>,
                                threw |-> "none",
                                exit |-> IF lines = <<>> THEN 1 ELSE -1]]>>
               /\ oracle' = o
               /\ UNCHANGED <<tz, call, simple>>

\* BatchAfterLine with the command ended at the first line that fails
BatchAfterLineStopping(c, o) ==
  LET run == c.out
      result == verifyFileDetailsLine(o, run.lines[run.next])
  IN IF result.threw # "none"
     THEN [run EXCEPT !.pc = "exit", !.exit = 1, !.threw = result.threw,
                      !.stderr = Append(@, Printed("Error", <<>>))]
     ELSE IF ~result.value.valid
     THEN [run EXCEPT !.pc = "exit", !.exit = 1, !.next = @ + 1, !.allValid = FALSE,
                      !.stderr = Append(@, Printed("FAIL", result.value.fileDetailsHash))]
     ELSE [run EXCEPT !.next = @ + 1]

\* cli/verify.ts lines 267-279 and 314-320, and 58-63: the locals of the command after
\* the body of its loop has run on the next line; an error thrown by the verifier
\* leaves the loop and the command
BatchAfterLine(c, o) ==
  LET run == c.out
      result == verifyFileDetailsLine(o, run.lines[run.next])
  IN IF result.threw # "none"
     THEN [run EXCEPT !.pc = "exit", !.exit = 1, !.threw = result.threw,
                      !.stderr = Append(@, Printed("Error", <<>>))]
     ELSE IF ~result.value.valid
     THEN [run EXCEPT !.next = @ + 1, !.allValid = FALSE,
                      !.stderr = Append(@, Printed("FAIL", result.value.fileDetailsHash))]
     ELSE IF /\ c.in.hashList # Undefined
             /\ ~verifyFileDetailsHashInList(result.value.fileDetailsHash, c.in.hashList).value
     THEN [run EXCEPT !.next = @ + 1, !.allValid = FALSE,
                      !.stderr = Append(@, Printed("FAIL: file_details_hash not in hash list",
                                                   result.value.fileDetailsHash))]
     ELSE [run EXCEPT !.next = @ + 1]

\* cli/verify.ts lines 266-280 and 313-319: one round of the loop over the lines
VerifyCommandLine ==
  /\ Len(check) = 1
  /\ check[1].fn = "verifyCommand"
  /\ check[1].out.pc = "lines"
  /\ check[1].out.next <= Len(check[1].out.lines)
  /\ check' = <<[check[1] EXCEPT !.out = BatchAfterLine(check[1], oracle)]>>
  /\ \E in \in {[detailLine |-> check[1].out.lines[check[1].out.next]]} :
       oracle' = OracleAfter(oracle, "verifyFileDetailsLine", in,
                             verifyFileDetailsLine(oracle, in.detailLine))
  /\ UNCHANGED <<tz, call, simple>>

\* cli/verify.ts lines 282-289 and 321-329: after the loop the hashset hash is
\* computed over the hash list given, or over the one built from the lines, and
\* printed; the command ends in failure when a line has failed
VerifyCommandHashsetHash ==
  /\ Len(check) = 1
  /\ check[1].fn = "verifyCommand"
  /\ check[1].out.pc = "lines"
  /\ check[1].out.next > Len(check[1].out.lines)
  /\ \E run \in {check[1].out},
        list \in {IF check[1].in.hashList = Undefined
                  THEN buildHashListFromDetailLines(check[1].out.lines)
                  ELSE check[1].in.hashList} :
       \E algorithm \in {inferAlgorithm(Split(run.lines[1], <<Colon>>)[1])} :
         IF algorithm.threw # "none"
         THEN /\ check' = <<[check[1] EXCEPT !.out =
                   [run EXCEPT !.pc = "exit", !.exit = 1, !.threw = algorithm.threw,
                               !.stderr = Append(@, Printed("Error", <<>>))]]>>
              /\ UNCHANGED oracle
         ELSE /\ check' = <<[check[1] EXCEPT !.out =
                   [run EXCEPT
                      !.pc = IF run.allValid THEN "summary" ELSE "exit",
                      !.exit = IF run.allValid THEN -1 ELSE 1,
                      !.stdout = Append(@, Printed("hashset_hash",
                                   hashBytes(oracle, Utf8Encode(list), algorithm.value))),
                      !.stderr = IF run.allValid THEN @
                                 ELSE Append(@, Printed("Verification FAILED.", <<>>))]]>>
              /\ oracle' = OracleAdd(oracle, algorithm.value, Utf8Encode(list))
  /\ UNCHANGED <<tz, call, simple>>

\* cli/verify.ts lines 291-300 and 331-345: the summary of a run without a failure
VerifyCommandSummary ==
  /\ Len(check) = 1
  /\ check[1].fn = "verifyCommand"
  /\ check[1].out.pc = "summary"
  /\ check' = <<[check[1] EXCEPT !.out =
         [check[1].out EXCEPT
            !.pc = "exit", !.exit = 0,
            !.stdout = Append(@, Printed("Valid file detail entries",
                                         DecStr(Len(check[1].out.lines))))]]>>
  /\ UNCHANGED <<oracle, tz, call, simple>>

\* the characters tried in place of the character c: its other-case form, and 'X'
\* where c has no other case or lies in the hash part of the line
Replacements(c, inHashPart) ==
  ({UpperChar(c), LowerChar(c)} \cup
     (IF inHashPart \/ UpperChar(c) = LowerChar(c) THEN {UpperX} ELSE {})) \ {c}

\* one character of a created detail line is replaced by another
CheckTamperedLine ==
  /\ Checkable(call[1])
  /\ Len(call[1].files) <= MaxTamperFiles
  /\ \E lines \in {ResultLines(call[1].result)} :
        \E i \in 1..Len(lines) : \E colonIdx \in {IndexOf(lines[i], ColonSpace)} :
         \E pos \in 1..Len(lines[i]) :
          \E c \in Replacements(lines[i][pos], pos <= colonIdx) :
             Call(oracle, "verifyFileDetailsLine",
                  [detailLine |-> [lines[i] EXCEPT ![pos] = c]],
                  "tampered", [line |-> lines[i], pos |-> pos])

CheckVerifyHashsetHash ==
  /\ Checkable(call[1])
  /\ LET res == call[1].result
     IN \E list \in {res.fileDetailsHashList, <<>>},
           expected \in HashInputs(res.hashsetHash) :
          Call(oracle, "verifyHashsetHash", [list |-> list, expected |-> expected],
               IF list = res.fileDetailsHashList /\ expected = res.hashsetHash
               THEN "created" ELSE "input", <<>>)

CheckVerifyFileDetailsHashInList ==
  /\ Checkable(call[1])
  /\ \E res \in {call[1].result} :
      \E hashes \in {{res.fileDetails[i].fileDetailsHash : i \in 1..Len(res.fileDetails)}} :
        \E target \in hashes \cup {res.hashsetHash, <<>>},
           list \in {res.fileDetailsHashList, <<>>} :
          Call(oracle, "verifyFileDetailsHashInList", [target |-> target, list |-> list],
               IF target \in hashes /\ list = res.fileDetailsHashList
               THEN "created" ELSE "input", <<>>)

CheckVerifyFileContentHash ==
  /\ Checkable(call[1])
  /\ LET fd == call[1].result.fileDetails
     IN \E i \in 1..Len(fd), bytes \in {ContentX, ContentY} :
          \E expected \in HashInputs(fd[i].contentHash) :
             Call(oracle, "verifyFileContentHash", [bytes |-> bytes, expected |-> expected],
                  "input", <<>>)

CheckVerifySimpleProofsetHash ==
  /\ Checkable(simple[1])
  /\ LET res == simple[1].result
     IN \E content \in {res.content, toUpperCase(res.content)},
           expected \in HashInputs(res.hash) :
          Call(oracle, "verifySimpleProofsetHash", [content |-> content, expected |-> expected],
               IF content = res.content /\ expected = res.hash THEN "created" ELSE "input",
               <<>>)

\* the content of a created simple proofset is tested for the simple format
CheckSimpleFormat ==
  /\ Checkable(simple[1])
  /\ Call(oracle, "isSimpleProofsetFormat", [content |-> simple[1].result.content],
          "created", <<>>)

\* the lines of a created simple proofset are extracted
CheckExtractSimpleLines ==
  /\ Checkable(simple[1])
  /\ Call(oracle, "extractSimpleProofsetLines", [content |-> simple[1].result.content],
          "created", <<>>)

\* a line of a created simple proofset is parsed
CheckParseSimpleLine ==
  /\ Checkable(simple[1])
  /\ \E lines \in {extractSimpleProofsetLines(simple[1].result.content).value} :
       \E i \in 1..Len(lines) :
         Call(oracle, "parseSimpleProofsetLine", [line |-> lines[i]], "created", i)

\* the detail lines are matched against the files held, by path
CheckMatchByPath ==
  /\ Checkable(call[1])
  /\ \E changed \in BOOLEAN, n \in {0, Len(call[1].files)} :
      \E held \in {HeldFiles(SubSeq(call[1].files, 1, n), changed)} :
       \E o \in {OracleAddAll(oracle, call[1].algorithm, held)} :
          Call(o, "matchDetailEntriesByPath",
               [lines |-> ResultLines(call[1].result),
                observed |-> PathToHash(o, call[1].algorithm, held)], "input", <<>>)

\* the detail lines are matched against the files held, by content hash
CheckMatchByHash ==
  /\ Checkable(call[1])
  /\ \E changed \in BOOLEAN, n \in {0, Len(call[1].files)} :
      \E held \in {HeldFiles(SubSeq(call[1].files, 1, n), changed)} :
       \E o \in {OracleAddAll(oracle, call[1].algorithm, held)} :
          Call(o, "matchDetailEntriesByHash",
               [lines |-> ResultLines(call[1].result),
                observed |-> HashToPaths(o, call[1].algorithm, held)], "input", <<>>)

\* the inputs that are `in` with one of its hex values upper-cased, each with the
\* name of the value
Uppercased(fn, in) ==
  CASE fn = "inferAlgorithm" ->
         {<<"hexHash", [in EXCEPT !.hexHash = toUpperCase(@)]>>}
    [] fn = "verifyFileDetailsLine" ->
         IF IndexOf(in.detailLine, ColonSpace) = -1 THEN {}
         ELSE {<<"stated hash", [in EXCEPT !.detailLine =
                                   UpperPrefix(@, IndexOf(@, ColonSpace))]>>,
               <<"secret", [in EXCEPT !.detailLine = UpperField(@, 1)]>>,
               <<"content hash", [in EXCEPT !.detailLine = UpperField(@, 3)]>>}
    [] fn = "verifyHashsetHash" ->
         {<<"expected", [in EXCEPT !.expected = toUpperCase(@)]>>,
          <<"hash list", [in EXCEPT !.list = toUpperCase(@)]>>}
    [] fn = "verifyFileDetailsHashInList" ->
         {<<"target", [in EXCEPT !.target = toUpperCase(@)]>>,
          <<"list entries", [in EXCEPT !.list = toUpperCase(@)]>>}
    [] fn = "verifyFileContentHash" ->
         {<<"expected", [in EXCEPT !.expected = toUpperCase(@)]>>}
    [] fn = "verifySimpleProofsetHash" ->
         {<<"expected", [in EXCEPT !.expected = toUpperCase(@)]>>}
    [] fn = "matchDetailEntriesByPath" ->
         {<<"stated", [in EXCEPT !.lines = [i \in 1..Len(@) |-> UpperField(@[i], 3)]]>>,
          <<"observed", [in EXCEPT !.observed =
                           [i \in 1..Len(@) |-> <<@[i][1], toUpperCase(@[i][2])>>]]>>}
    [] fn = "matchDetailEntriesByHash" ->
         {<<"stated", [in EXCEPT !.lines = [i \in 1..Len(@) |-> UpperField(@[i], 3)]]>>,
          <<"observed", [in EXCEPT !.observed =
                           [i \in 1..Len(@) |-> <<toUpperCase(@[i][1]), @[i][2]>>]]>>}
    [] OTHER -> {}

\* the verifier of the first call is called again, a hex value of its input upper-cased
CheckUppercased ==
  /\ Len(check) = 1
  /\ check[1].how # "tampered"
  /\ \E v \in Uppercased(check[1].fn, check[1].in) :
       /\ v[2] # check[1].in
       /\ Call(oracle, check[1].fn, v[2], "uppercased", v[1])

----------------------------------------------------------------------------
(* What the claims speak of *)

\* the entries a call has emitted so far; those of its result once it has returned
Emitted(c) == IF c.pc = "done" THEN c.result.fileDetails ELSE c.fileDetails

\* the detail lines a call has built so far, each followed by "\r\n"; the
\* fileDetailsLineList of its result once it has returned
EmittedLineList(c) ==
  IF c.pc = "done" THEN c.result.fileDetailsLineList
  ELSE IF c.fileDetailsLines = <<>> THEN <<>>
  ELSE Join(c.fileDetailsLines, CRLF) \o CRLF

\* the detail lines due for a sequence of entries, each followed by "\r\n"
RECURSIVE DueLineList(_)
DueLineList(fd) ==
  IF fd = <<>> THEN <<>>
  ELSE fd[1].fileDetailsHash \o <<Colon, SP>> \o fd[1].fileSecret \o <<SP>>
         \o fd[1].modifiedTimeUtc \o <<SP>> \o fd[1].contentHash \o <<SP>>
         \o fd[1].filePath \o CRLF \o DueLineList(Tail(fd))

\* a file has a full/original path: the field is set and is not the empty string
HasFullPath(f) == f.fullPath # Undefined /\ f.fullPath # <<>>

EntryCount(f) == IF HasFullPath(f) THEN 2 ELSE 1

RECURSIVE EntriesBefore(_, _)
\* the number of entries due for the files before the k-th
EntriesBefore(files, k) ==
  IF k <= 1 THEN 0 ELSE EntriesBefore(files, k - 1) + EntryCount(files[k - 1])

RECURSIVE DueEntries(_)
\* the entries due for a file sequence, as (timestamp, content, path) triples: per
\* file its full path, if it has one, and then its relative path
DueEntries(files) ==
  IF files = <<>> THEN <<>>
  ELSE LET f == Head(files)
           stamp == <<f.modifiedTime.year, f.modifiedTime.month, f.modifiedTime.day,
                      f.modifiedTime.hours, f.modifiedTime.minutes, f.modifiedTime.seconds>>
       IN (IF HasFullPath(f) THEN <<<<stamp, f.content, f.fullPath>>>> ELSE <<>>)
            \o <<<<stamp, f.content, f.relativePath>>>> \o DueEntries(Tail(files))

RECURSIVE HashesWithCrLf(_)
\* each entry's hash followed by "\r\n", in order
HashesWithCrLf(fd) ==
  IF fd = <<>> THEN <<>>
  ELSE Head(fd).fileDetailsHash \o <<CR, LF>> \o HashesWithCrLf(Tail(fd))

\* (alg, the UTF-8 bytes of input) has been digested and h is its digest
IsDigestOf(h, input, alg) ==
  /\ \E i \in 1..Len(oracle) : oracle[i] = <<alg, input>>
  /\ h = hashBytes(oracle, input, alg)

----------------------------------------------------------------------------
(* Claims on createProofset *)

\* C1: the first emitted entry's secret is H(seedPassword) and every later entry's
\* secret is H(seedPassword + secret[i-1] + detailHash[i-1]), counted per emitted
\* entry across file boundaries.
C1_SecretChain ==
  \A r \in Runs :
    LET c == call[r]
        fd == Emitted(c)
    IN \A i \in 1..Len(fd) :
         IsDigestOf(fd[i].fileSecret,
                    IF i = 1 THEN c.seedPassword
                    ELSE c.seedPassword \o fd[i - 1].fileSecret \o fd[i - 1].fileDetailsHash,
                    c.algorithm)

\* a call has returned four entries for two files: a file's second entry and the
\* next file's first entry are both chained
C1_Witness ==
  /\ call[1].pc = "done"
  /\ call[1].files = <<FileP, FileR>>
  /\ Len(call[1].result.fileDetails) = 4

C3_EntriesPerFile ==
  \A r \in Runs :
    LET c == call[r]
        fd == Emitted(c)
        n == c.next - 1
    IN c.pc \in {"loop", "done"} =>
         /\ Len(fd) = EntriesBefore(c.files, n + 1)
         /\ \A k \in 1..n :
              LET f == c.files[k]
                  at == EntriesBefore(c.files, k)
              IN IF HasFullPath(f)
                 THEN /\ fd[at + 1].filePath = f.fullPath
                      /\ fd[at + 2].filePath = f.relativePath
                      /\ fd[at + 1].contentHash = fd[at + 2].contentHash
                      /\ fd[at + 1].modifiedTimeUtc = fd[at + 2].modifiedTimeUtc
                      /\ IsDigestOf(fd[at + 1].contentHash, f.content, c.algorithm)
                 ELSE /\ fd[at + 1].filePath = f.relativePath
                      /\ IsDigestOf(fd[at + 1].contentHash, f.content, c.algorithm)

\* a call has returned three entries for a file with a full path and one without
C3_Witness ==
  /\ call[1].pc = "done"
  /\ call[1].files = <<FileR, FileQ>>
  /\ Len(call[1].result.fileDetails) = 3

\* C4: the returned fileDetailsHashList is the entries' hashes, each followed by
\* "\r\n", in emission order, and hashsetHash is the digest of its bytes.
C4_HashListAndRoot ==
  \A r \in Runs :
    call[r].pc = "done" =>
      LET res == call[r].result
      IN /\ res.fileDetailsHashList = HashesWithCrLf(res.fileDetails)
         /\ IsDigestOf(res.hashsetHash, res.fileDetailsHashList, call[r].algorithm)

\* a call has returned a hash list of at least two hashes
C4_Witness ==
  /\ call[1].pc = "done"
  /\ Len(call[1].result.fileDetails) >= 2
  /\ Len(call[1].result.fileDetailsHashList) >= 2 * (Sha256HexLen + 2)

\* C5: on what createProofset returned, under either algorithm, verifyHashsetHash on
\* the hash list and the root hash is true, and for every detail line
\* verifyFileDetailsLine returns valid = true and verifyFileDetailsHashInList on the
\* line's hash and the hash list is true.
C5_RoundTrip ==
  \A k \in 1..Len(check) :
    check[k].how = "created" =>
      /\ check[k].out.threw = "none"
      /\ check[k].fn = "verifyFileDetailsLine" => check[k].out.value.valid = TRUE
      /\ check[k].fn \in {"verifyHashsetHash", "verifyFileDetailsHashInList"} =>
           check[k].out.value = TRUE

\* a detail line of a SHA-512 proofset of two files has been verified as created
C5_Witness ==
  /\ Len(check) = 1
  /\ check[1].how = "created"
  /\ check[1].fn = "verifyFileDetailsLine"
  /\ call[1].algorithm = "SHA-512"
  /\ Len(call[1].files) = 2

\* C6: two calls on the same inputs return the same root hash, hash list and detail
\* lines, whatever the host's time zone during either; likewise createSimpleProofset
\* returns the same hash and content.
C6_Determinism ==
  /\ (/\ call[1].pc = "done" /\ call[2].pc = "done"
      /\ call[1].seedPassword = call[2].seedPassword
      /\ call[1].algorithm = call[2].algorithm
      /\ call[1].files = call[2].files)
     => /\ call[1].result.hashsetHash = call[2].result.hashsetHash
        /\ call[1].result.fileDetailsHashList = call[2].result.fileDetailsHashList
        /\ call[1].result.fileDetailsLineList = call[2].result.fileDetailsLineList
  /\ (/\ simple[1].pc = "done" /\ simple[2].pc = "done"
      /\ simple[1].algorithm = simple[2].algorithm
      /\ simple[1].files = simple[2].files)
     => /\ simple[1].result.hash = simple[2].result.hash
        /\ simple[1].result.content = simple[2].result.content

\* the second call ran on the first call's input in another time zone
C6_Witness ==
  /\ call[1].pc = "done" /\ call[2].pc = "done"
  /\ call[1].files = call[2].files
  /\ Len(call[1].files) = 2
  /\ tz # 0

\* where the replaced character of a tampered line lies: in the hash part, in the
\* separator or in the body
TamperedPart(t) ==
  LET colonIdx == IndexOf(t.note.line, ColonSpace)
  IN IF t.note.pos <= colonIdx THEN "hash"
     ELSE IF t.note.pos <= colonIdx + 2 THEN "separator" ELSE "body"

\* the replacement is the replaced character in the other letter case
TamperedCaseOnly(t) ==
  LowerChar(t.note.line[t.note.pos]) = LowerChar(t.in.detailLine[t.note.pos])

\* C7 as stated: a created detail line with any one character of its hash part or of
\* its body replaced by a different character verifies as valid = false.
C7_AnyReplacementInvalidates ==
  \A k \in 1..Len(check) :
    (check[k].how = "tampered" /\ TamperedPart(check[k]) # "separator") =>
      /\ check[k].out.threw = "none"
      /\ check[k].out.value.valid = FALSE

\* C7: a created detail line with one character replaced by a different character
\* verifies as valid = false when the character is in the body, or is in the hash
\* part and the replacement is not the same hex digit in the other letter case; a
\* letter of the hash part replaced by its other-case form leaves valid = true.
C7_TamperSensitivity ==
  \A k \in 1..Len(check) :
    check[k].how = "tampered" =>
      \E part \in {TamperedPart(check[k])} :
        part # "separator" =>
          /\ check[k].in.detailLine # check[k].note.line
          /\ check[k].out.threw = "none"
          /\ check[k].out.value.valid = (part = "hash" /\ TamperedCaseOnly(check[k]))

\* a character of the body of a created detail line was replaced and the line verified
C7_Witness ==
  /\ Len(check) = 1
  /\ check[1].how = "tampered"
  /\ TamperedPart(check[1]) = "body"
  /\ check[1].out.threw = "none"
  /\ check[1].out.value.valid = FALSE

BoolStr(b) == IF b THEN "true" ELSE "false"

\* what a verifier call decided: the error it threw, or the verdict of what it returned
Outcome(fn, out) ==
  IF out.threw # "none" THEN <<"threw", out.threw>>
  ELSE CASE fn = "inferAlgorithm" -> <<"returned", out.value>>
         [] fn = "verifyFileDetailsLine" -> <<"returned", BoolStr(out.value.valid)>>
         [] fn = "verifyFileContentHash" -> <<"returned", BoolStr(out.value.match)>>
         [] fn \in {"matchDetailEntriesByPath", "matchDetailEntriesByHash"} ->
              <<"returned">> \o [i \in 1..Len(out.value) |-> out.value[i].status]
         [] OTHER -> <<"returned", BoolStr(out.value)>>

\* the hex values a verifier compares with a hash it computed or was given
ComparedValues ==
  {<<"inferAlgorithm", "hexHash">>,
   <<"verifyFileDetailsLine", "stated hash">>,
   <<"verifyHashsetHash", "expected">>,
   <<"verifyFileDetailsHashInList", "target">>,
   <<"verifyFileDetailsHashInList", "list entries">>,
   <<"verifyFileContentHash", "expected">>,
   <<"verifySimpleProofsetHash", "expected">>,
   <<"matchDetailEntriesByPath", "stated">>,
   <<"matchDetailEntriesByPath", "observed">>,
   <<"matchDetailEntriesByHash", "stated">>}

\* the second call is the first with one hex value upper-cased
IsUppercasedPair == Len(check) = 2 /\ check[2].how = "uppercased"

\* C8 as stated: a verifier gives the same outcome when any hex value of its input is
\* upper-cased.
C8_AnyHexValueCaseInsensitive ==
  IsUppercasedPair =>
    Outcome(check[2].fn, check[2].out) = Outcome(check[1].fn, check[1].out)

\* C8: a verifier gives the same outcome when a hex value it compares is upper-cased:
\* the hash part of a detail line, the expected root hash, the membership target and
\* the list entries, the expected content or simple-proofset hash, the stated content
\* hashes given to the matchers and the observed ones given to
\* matchDetailEntriesByPath.  Upper-casing a hex value that is hashed (the file secret
\* or content hash inside a detail line, the hash list given to verifyHashsetHash)
\* leaves an error as it was and otherwise gives false, and upper-casing the observed
\* hashes given to matchDetailEntriesByHash gives not_found for every line.
C8_CaseInsensitivity ==
  IsUppercasedPair =>
    LET fn == check[2].fn
        first == Outcome(fn, check[1].out)
        second == Outcome(fn, check[2].out)
    IN IF <<fn, check[2].note>> \in ComparedValues THEN second = first
       ELSE IF first[1] = "threw" THEN second = first
       ELSE IF fn = "matchDetailEntriesByHash"
            THEN second = <<"returned">> \o [i \in 1..(Len(first) - 1) |-> "not_found"]
            ELSE second = <<"returned", "false">>

\* a detail line that verified as valid was verified again with its hash part
\* upper-cased
C8_Witness ==
  /\ IsUppercasedPair
  /\ check[2].fn = "verifyFileDetailsLine"
  /\ check[2].note = "stated hash"
  /\ check[1].out.threw = "none"
  /\ check[1].out.value.valid = TRUE

\* the stated hash of a verifier call: the text before the first ": " of a detail
\* line, the expected hash of the others
StatedHash(fn, in) ==
  IF fn = "verifyFileDetailsLine"
  THEN Slice(in.detailLine, 0, IndexOf(in.detailLine, ColonSpace))
  ELSE in.expected

InfersAlgorithm(c) ==
  \/ c.fn \in {"verifyHashsetHash", "verifyFileContentHash", "verifySimpleProofsetHash"}
  \/ c.fn = "verifyFileDetailsLine" /\ IndexOf(c.in.detailLine, ColonSpace) # -1

\* C9: inferAlgorithm returns SHA-256 for a string of length 64, SHA-512 for one of
\* length 128 and throws the invalid-hash-length error for every other length; a
\* verifier that infers the algorithm throws that error, and returns nothing, exactly
\* when its stated hash has another length.
C9_InferAlgorithm ==
  \A k \in 1..Len(check) :
    /\ check[k].fn = "inferAlgorithm" =>
         check[k].out =
           (IF Len(check[k].in.hexHash) = 64 THEN Returned("SHA-256")
            ELSE IF Len(check[k].in.hexHash) = 128 THEN Returned("SHA-512")
            ELSE Threw("InvalidHashLength"))
    /\ InfersAlgorithm(check[k]) =>
         IF Len(StatedHash(check[k].fn, check[k].in)) \in {64, 128}
         THEN check[k].out.threw = "none"
         ELSE check[k].out = Threw("InvalidHashLength")

\* a verifier was called with a stated hash one character longer than a SHA-512 hash
C9_Witness ==
  /\ Len(check) = 1
  /\ check[1].fn = "verifyHashsetHash"
  /\ Len(check[1].in.expected) = 129
  /\ check[1].out = Threw("InvalidHashLength")

\* C10 as stated: the same files in a different order give a different root hash.
C10_AnyReorderingChangesRoot ==
  (/\ call[1].pc = "done" /\ call[2].pc = "done"
   /\ call[1].files # call[2].files)
  => call[1].result.hashsetHash # call[2].result.hashsetHash

\* C10: the same files in another order give a different root hash unless the
\* reordering leaves the sequence of emitted entries (timestamp to the second,
\* content, path) unchanged; the entries are returned in input order.
C10_OrderSensitivity ==
  /\ (/\ call[1].pc = "done" /\ call[2].pc = "done"
      /\ DueEntries(call[1].files) # DueEntries(call[2].files))
     => call[1].result.hashsetHash # call[2].result.hashsetHash
  /\ \A r \in Runs :
       call[r].pc = "done" =>
         LET due == DueEntries(call[r].files)
             fd == call[r].result.fileDetails
         IN /\ Len(fd) = Len(due)
            /\ \A i \in 1..Len(fd) : fd[i].filePath = due[i][3]

\* the second call ran on the first call's files in another order and returned
C10_Witness ==
  /\ call[1].pc = "done" /\ call[2].pc = "done"
  /\ call[1].files = <<FileP, FileR>>
  /\ call[2].files = <<FileR, FileP>>

\* the call is in its loop: its locals are alive
InLoop(c) == c.pc \in {"loop", "paths"}

\* the two states of the chain
Seeded(c) == c.prevFileSecret = Undefined /\ c.prevFileDetailsHash = Undefined
Chained(c) == c.prevFileSecret # Undefined /\ c.prevFileDetailsHash # Undefined

\* the chain state of a call in its loop is what its emitted entries make it
ChainStateOf(c) ==
  LET n == Len(c.fileDetails)
  IN /\ Seeded(c) \/ Chained(c)
     /\ Seeded(c) <=> n = 0
     /\ Seeded(c) => IsDigestOf(c.fileSecret, Utf8Encode(c.seedPassword), c.algorithm)
     /\ Chained(c) =>
          /\ c.prevFileSecret = c.fileDetails[n].fileSecret
          /\ c.prevFileDetailsHash = c.fileDetails[n].fileDetailsHash
          /\ c.fileSecret = c.prevFileSecret
     \* a file is pulled only when every entry of the files before it is stored
     /\ n = IF c.pc = "loop" THEN EntriesBefore(c.files, c.next)
            ELSE EntriesBefore(c.files, c.next - 1) + c.pathIdx - 1

\* a step of a call in its loop: the chain never leaves Chained, and an entry is
\* added to the entries stored, one at a time
ChainStepOf(c, d) ==
  (InLoop(c) /\ InLoop(d)) =>
    /\ Chained(c) => Chained(d)
    /\ Len(d.fileDetails) \in {Len(c.fileDetails), Len(c.fileDetails) + 1}
    /\ \A i \in 1..Len(c.fileDetails) : d.fileDetails[i] = c.fileDetails[i]
    /\ d.next \in {c.next, c.next + 1}
    /\ d.next = c.next + 1 => (c.pc = "loop" /\ d.fileDetails = c.fileDetails)

\* C23: the chain of createProofset is Seeded (both previous values null, the secret
\* H(seed)) until the first entry and Chained, with the secret and detail hash of the
\* entry emitted last, after it; never exactly one previous value is set, Chained is
\* never left, and entries and files are taken one at a time, each after the one
\* before it has been stored.
C23_ChainStateMachine ==
  /\ [](\A r \in Runs : InLoop(call[r]) => ChainStateOf(call[r]))
  /\ [][\A r \in Runs : ChainStepOf(call[r], call'[r])]_vars

\* a call on two files is Chained after three entries, the second file pulled
C23_Witness ==
  \E r \in Runs :
    /\ call[r].pc = "paths"
    /\ Chained(call[r])
    /\ Len(call[r].fileDetails) >= 2
    /\ call[r].next = 3

RECURSIVE TerminatedLines(_)
\* one "<hash>: <detail string>" line per entry, each ended by "\r\n"
TerminatedLines(entries) ==
  IF entries = <<>> THEN <<>>
  ELSE LET e == Head(entries)
       IN DetailLine(e.fileDetailsHash,
                     buildFileDetails(e.fileSecret, e.modifiedTimeUtc, e.contentHash,
                                      e.filePath))
            \o CRLF \o TerminatedLines(Tail(entries))

\* the number of "\r\n" line ends in a text
LineEnds(text) == Len(Split(text, CRLF)) - 1

\* C24: for every input sequence, the empty one included, the fileDetailsLineList of
\* a result is one "<hash>: <detail string>" line per emitted entry, each ended by
\* "\r\n", in emission order and nothing else, and so has as many line ends as the
\* fileDetailsHashList.
C24_LineListPerEntry ==
  \A r \in Runs :
    call[r].pc = "done" =>
      /\ call[r].result.fileDetailsLineList = TerminatedLines(call[r].result.fileDetails)
      /\ LineEnds(call[r].result.fileDetailsLineList)
           = LineEnds(call[r].result.fileDetailsHashList)

\* the entries a call on the files emits when it runs to its end
EntriesOfFiles(files) == EntriesBefore(files, Len(files) + 1)

\* C22: a createProofset call that has not completed has returned no result, a call
\* that failed has none either, a result covers the whole file sequence, and the
\* create command writes its two files and prints the root hash only after the call
\* has completed, from that result.
C22_NoPartialSuccess ==
  /\ \A r \in Runs :
       /\ call[r].pc # "done" => call[r].result = Undefined
       /\ call[r].pc = "done" =>
            /\ call[r].next = Len(call[r].files) + 1
            /\ Len(call[r].result.fileDetails) = EntriesOfFiles(call[r].files)
            /\ call[r].result.hashsetHash # Undefined
  /\ \A k \in 1..Len(check) :
       check[k].how = "command" =>
         /\ call[1].pc = "done"
         /\ check[k].in.content \in {call[1].result.fileDetailsLineList,
                                      call[1].result.fileDetailsHashList,
                                      call[1].result.hashsetHash}

\* a call on two files failed after the first file's entries; nothing was written
C22_Witness ==
  /\ call[1].pc = "failed"
  /\ Len(call[1].files) = 2
  /\ call[1].next = 2
  /\ check = NoCheck

----------------------------------------------------------------------------
(* Claims on createSimpleProofset *)

\* the entries a simple call has pushed so far; those of its result once it has
\* returned
SimpleEmitted(c) == IF c.pc = "done" THEN c.result.entries ELSE c.entries

\* the lines due for a sequence of simple entries, each followed by "\r\n"
RECURSIVE DueSimpleContent(_)
DueSimpleContent(entries) ==
  IF entries = <<>> THEN <<>>
  ELSE entries[1].contentHash \o <<SP>> \o entries[1].modifiedTimeUtc \o <<SP>>
         \o entries[1].fileName \o <<CR, LF>> \o DueSimpleContent(Tail(entries))

SameNamesAndBytes ==
  /\ simple[1].pc = "done" /\ simple[2].pc = "done"
  /\ simple[1].algorithm = simple[2].algorithm
  /\ Len(simple[1].files) = Len(simple[2].files)
  /\ \A i \in 1..Len(simple[1].files) :
       [simple[1].files[i] EXCEPT !.modifiedTime = Date1]
         = [simple[2].files[i] EXCEPT !.modifiedTime = Date1]

\* every file has, in both calls, modification times within the same second
SameSeconds ==
  \A i \in 1..Len(simple[1].files) :
    [simple[1].files[i].modifiedTime EXCEPT !.ms = 0]
      = [simple[2].files[i].modifiedTime EXCEPT !.ms = 0]

SimpleRoundTripOf(c) ==
  /\ c.out.threw = "none"
  /\ c.fn = "verifySimpleProofsetHash" => c.out.value = TRUE
  /\ c.fn = "extractSimpleProofsetLines" => Len(c.out.value) = Len(simple[1].files)
  /\ c.fn = "parseSimpleProofsetLine" =>
       /\ c.out.value.contentHash = simple[1].result.entries[c.note].contentHash
       /\ c.out.value.modifiedTimeUtc = simple[1].result.entries[c.note].modifiedTimeUtc
       /\ c.out.value.fileName = simple[1].result.entries[c.note].fileName

C28_HashListRebuilt ==
  \A k \in 1..Len(check) :
    (/\ check[k].fn = "buildHashListFromDetailLines" /\ check[k].how = "created"
     /\ Len(call[1].result.fileDetails) >= 1) =>
      /\ check[k].out = Returned(call[1].result.fileDetailsHashList)
      /\ IsDigestOf(call[1].result.hashsetHash, Utf8Encode(check[k].out.value),
                    call[1].algorithm)
      /\ Len(check[k].in.lines) = Len(call[1].result.fileDetails)
      /\ \A i \in 1..Len(check[k].in.lines) :
           LET line == check[k].in.lines[i]
               taken == Split(check[k].out.value, CRLF)[i]
           IN /\ taken = call[1].result.fileDetails[i].fileDetailsHash
              /\ verifyFileDetailsLine(oracle, line) =
                   Returned([valid |-> TRUE, fileDetailsHash |-> taken])
              /\ parseFileDetailsLine(line).threw = "none"
              /\ parseFileDetailsLine(line).value.fileDetailsHash = taken

\* the hash list of a proofset of three entries was rebuilt from its detail lines
C28_Witness ==
  \E k \in 1..Len(check) :
    /\ check[k].fn = "buildHashListFromDetailLines" /\ check[k].how = "created"
    /\ Len(check[k].in.lines) = 3
    /\ check[k].out.value = call[1].result.fileDetailsHashList

\* what parseFileDetailsLine is to return for an entry
ParsedEntry(e) ==
  Returned([fileDetailsHash |-> e.fileDetailsHash, fileSecret |-> e.fileSecret,
            modifiedTimeUtc |-> e.modifiedTimeUtc, fileContentHash |-> e.contentHash,
            filePath |-> e.filePath])

\* a detail line of a created proofset has been parsed: the entry it was written for
ParsedCreated(c) == c.fn = "parseFileDetailsLine" /\ c.how = "created"

----------------------------------------------------------------------------
(* Claims on the verify command *)

\* the line states the digest of the detail string after its ": "
LineVerifies(line) ==
  \E i \in 1..2, algorithm \in Algorithms :
    /\ Len(line) = HexLen(algorithm) + 2 + Len(BatchDetails[i])
    /\ SliceFrom(line, HexLen(algorithm) + 2) = BatchDetails[i]
    /\ IsDigestOf(Slice(line, 0, HexLen(algorithm)), Utf8Encode(BatchDetails[i]), algorithm)

\* the text before the first ": " of the line is a line of the hash list
LineListed(line, hashList) ==
  \E j \in 1..Len(Split(hashList, CRLF)) :
    Split(hashList, CRLF)[j] = Slice(line, 0, IndexOf(line, ColonSpace))

\* the lines of a run of the verify command that fail: the hash check, or with a hash
\* list the membership
FailingLines(c) ==
  {i \in 1..Len(c.out.lines) :
     \/ ~LineVerifies(c.out.lines[i])
     \/ c.in.hashList # Undefined /\ ~LineListed(c.out.lines[i], c.in.hashList)}

\* the outputs with the text among those printed
PrintedWith(printed, text) == {k \in 1..Len(printed) : printed[k].text = text}

\* a run of the verify command on a details file has ended without a thrown error
BatchEnded(c) ==
  /\ c.fn = "verifyCommand" /\ c.out.pc = "exit"
  /\ c.out.lines # <<>> /\ c.out.threw = "none"

C26_ListedHashFound ==
  \A k \in 1..Len(check) :
    check[k].how = "listed" => check[k].out = Returned(TRUE)

\* C27: every line that extractDetailLines returns can be checked without a thrown
\* error - verifyFileDetailsLine returns a result for it, the algorithm being
\* inferable from its hash part - so that no run of the verify command on a details
\* file ends with a thrown error.
C27_NoHardError ==
  \A k \in 1..Len(check) :
    check[k].fn = "verifyCommand" =>
      /\ \A i \in 1..Len(check[k].out.lines) :
           verifyFileDetailsLine(oracle, check[k].out.lines[i]).threw = "none"
      /\ check[k].out.threw = "none"

\* the contents of the files checked for the i-th entry of a simple proofset: the
\* file -f names, or the file of the entry's name in the directory -f names
CheckedFor(c, i) ==
  IF c.in.target.kind = "file" THEN {c.in.target.content}
  ELSE {c.in.target.files[j][2] :
          j \in {j \in 1..Len(c.in.target.files) :
                   c.in.target.files[j][1] = c.note.entries[i][1]}}

\* C30: in simple-proofset verification against files the status of each entry is
\* PASS only if the content of the file checked for it is the entry's content, FAIL
\* only if it is another, NOT FOUND only if no file was checked for it, also when
\* entries share a file name; and the three counts add up to the number of entries.
C30_OwnStatus ==
  \A k \in 1..Len(check) :
    check[k].fn = "verifyCommandSimple" =>
      LET c == check[k]
          n == Len(c.note.entries)
      IN /\ Len(c.out.statuses) = n
         /\ \A i \in 1..n :
              /\ c.out.statuses[i] = "PASS" => CheckedFor(c, i) = {c.note.entries[i][2]}
              /\ c.out.statuses[i] = "FAIL" =>
                   (CheckedFor(c, i) # {} /\ c.note.entries[i][2] \notin CheckedFor(c, i))
              /\ c.out.statuses[i] = "NOT FOUND" => CheckedFor(c, i) = {}
         /\ c.out.matches + c.out.mismatches + c.out.notFound = n

----------------------------------------------------------------------------
(* Claims on the verifiers of single values *)

\* the algorithm of a stated hash of a valid length
AlgorithmOfLength(n) == IF n = Sha256HexLen THEN "SHA-256" ELSE "SHA-512"

\* C11: verifyFileDetailsLine splits the line at its first ": "; without one it throws
\* the malformed-line error; with a stated hash of a length other than 64 and 128 it
\* throws the invalid-hash-length error; otherwise it returns the stated hash, and
\* valid exactly when the lower-cased stated hash is the digest, under the algorithm
\* of that length, of the text after the ": " taken verbatim - a mismatch is
\* valid = false, not an error.
C11_VerifyDetailLine ==
  \A k \in 1..Len(check) :
    check[k].fn = "verifyFileDetailsLine" =>
      LET line == check[k].in.detailLine
          out == check[k].out
          found == {i \in 0..Len(line) : MatchAt(line, ColonSpace, i)}
      IN IF found = {} THEN out = Threw("MalformedLine")
         ELSE \E i \in found :
                /\ \A j \in found : i <= j
                /\ IF i \notin {Sha256HexLen, Sha512HexLen} THEN out = Threw("InvalidHashLength")
                   ELSE /\ out.threw = "none"
                        /\ out.value.fileDetailsHash = SubSeq(line, 1, i)
                        /\ out.value.valid <=>
                             IsDigestOf(toLowerCase(SubSeq(line, 1, i)),
                                        Utf8Encode(SubSeq(line, i + 3, Len(line))),
                                        AlgorithmOfLength(i))

\* a line whose detail string has a ": " of its own verified, and a line that states
\* the digest of another detail string was found invalid without an error
C11_Witness ==
  \E k, m \in 1..Len(check) :
    /\ check[k].fn = "verifyFileDetailsLine" /\ check[m].fn = "verifyFileDetailsLine"
    /\ check[k].out.threw = "none" /\ check[k].out.value.valid
    /\ \E i \in Sha256HexLen + 2..Len(check[k].in.detailLine) :
           MatchAt(check[k].in.detailLine, ColonSpace, i)
    /\ check[m].out.threw = "none" /\ ~check[m].out.value.valid

\* the characters a+1..b of list are a segment of its split on "\r\n": they lie
\* between two neighbouring "\r\n", or between one and an end of the list
SegmentAt(list, a, b) ==
  /\ a = 0 \/ (a >= 2 /\ MatchAt(list, CRLF, a - 2))
  /\ b = Len(list) \/ MatchAt(list, CRLF, b)
  /\ \A j \in a..(b - 2) : ~MatchAt(list, CRLF, j)

\* C12: verifyFileDetailsHashInList returns true exactly when a non-empty segment of
\* the list split on "\r\n" equals the target up to letter case; it returns false, and
\* throws nothing, for a target that is absent, and an empty segment matches nothing.
C12_HashInList ==
  \A k \in 1..Len(check) :
    check[k].fn = "verifyFileDetailsHashInList" =>
      LET list == check[k].in.list
          target == check[k].in.target
      IN check[k].out =
           Returned(\E a \in 0..Len(list), b \in 0..Len(list) :
                      /\ a < b
                      /\ SegmentAt(list, a, b)
                      /\ toLowerCase(SubSeq(list, a + 1, b)) = toLowerCase(target))

\* a hash was found in a list that holds it in the other letter case only and that
\* begins with an empty segment
C12_Witness ==
  \E k \in 1..Len(check) :
    /\ check[k].fn = "verifyFileDetailsHashInList"
    /\ check[k].out = Returned(TRUE)
    /\ \A a \in 0..Len(check[k].in.list) :
         ~MatchAt(check[k].in.list, check[k].in.target, a)
    /\ MatchAt(check[k].in.list, CRLF, 0)

----------------------------------------------------------------------------
(* Claims on the parsers *)

\* the number of hex digits a line begins with
LeadingHex(line) ==
  CHOOSE n \in 0..Len(line) :
    /\ n = Len(line) \/ ~IsHexChar(line[n + 1])
    /\ \A k \in 1..n : IsHexChar(line[k])

FirstNonEmpty(lines) ==
  IF \A i \in 1..Len(lines) : lines[i] = <<>> THEN <<>>
  ELSE lines[CHOOSE i \in 1..Len(lines) : lines[i] # <<>> /\ \A j \in 1..(i - 1) : lines[j] = <<>>]

\* a line is n hex digits with 64 <= n <= 128, a space, 8 digits, '-', 6 digits, a
\* space and a non-empty file name
IsSimpleLine(line) ==
  LET n == LeadingHex(line)
  IN /\ n >= Sha256HexLen /\ n <= Sha512HexLen
     /\ Len(line) > n + 17
     /\ line[n + 1] = SP
     /\ \A d \in 1..8 : IsDecDigit(line[n + 1 + d])
     /\ line[n + 10] = Hyphen
     /\ \A d \in 1..6 : IsDecDigit(line[n + 10 + d])
     /\ line[n + 17] = SP

----------------------------------------------------------------------------
(* Claims on the matchers *)

\* the positions of the observed files an entry path may resolve to, by the rule
\* that applies first: the file of that very path; else the files whose paths are
\* the path less some leading '/'-segments; else, for a path without a '/', the
\* files of that name in some directory
Candidates(path, observed) ==
  LET whole == {e \in 1..Len(observed) : observed[e][1] = path}
      suffix == {e \in 1..Len(observed) :
                   \E j \in 1..(Len(path) - 1) :
                     path[j] = Slash /\ observed[e][1] = SubSeq(path, j + 1, Len(path))}
      named == {e \in 1..Len(observed) :
                  /\ \A j \in 1..Len(path) : path[j] # Slash
                  /\ Len(observed[e][1]) > Len(path)
                  /\ SubSeq(observed[e][1], Len(observed[e][1]) - Len(path),
                            Len(observed[e][1])) = <<Slash>> \o path}
  IN IF whole # {} THEN whole ELSE IF suffix # {} THEN suffix ELSE named

\* the position of the observed file an entry path resolves to, 0 when to none: of
\* the candidates by suffix the one of the longest path, of the candidates by name
\* the first in the order of the map
Resolved(path, observed) ==
  LET c == Candidates(path, observed)
  IN IF c = {} THEN 0
     ELSE IF \E e \in c : Len(observed[e][1]) < Len(path)
     THEN CHOOSE e \in c : \A d \in c : Len(observed[d][1]) <= Len(observed[e][1])
     ELSE CHOOSE e \in c : \A d \in c : e <= d

C16_PathStatus ==
  \A k \in 1..Len(check) :
    (check[k].fn = "matchDetailEntriesByPath" /\ check[k].how = "input") =>
      /\ check[k].out.threw = "none"
      /\ Len(check[k].out.value) = Len(check[k].note.paths)
      /\ \A i \in 1..Len(check[k].note.paths) :
           LET observed == check[k].in.observed
               e == Resolved(normalizePath(check[k].note.paths[i]), observed)
               result == check[k].out.value[i]
           IN /\ result.parsed.filePath = check[k].note.paths[i]
              /\ result.status =
                   IF e = 0 THEN "not_found"
                   ELSE IF toLowerCase(observed[e][2]) = toLowerCase(check[k].note.stated)
                   THEN "match" ELSE "mismatch"
              /\ ("computedHash" \in DOMAIN result) <=> result.status \in {"match", "mismatch"}

\* two lines were matched: the first resolved to a file whose hash is the stated one
\* in the other letter case, the second resolved to none
C16_Witness ==
  \E k \in 1..Len(check) :
    /\ check[k].fn = "matchDetailEntriesByPath" /\ check[k].how = "input"
    /\ Len(check[k].out.value) = 2
    /\ check[k].out.value[1].status = "match"
    /\ check[k].out.value[1].computedHash # check[k].note.stated
    /\ check[k].out.value[2].status = "not_found"

\* the paths, in the order held, of the files held whose hash is h
RECURSIVE PathsWithHash(_, _)
PathsWithHash(held, h) ==
  IF held = <<>> THEN <<>>
  ELSE (IF Head(held)[2] = h THEN <<Head(held)[1]>> ELSE <<>>) \o PathsWithHash(Tail(held), h)

\* C17: matchDetailEntriesByHash gives each line the status match, with matchedFiles
\* all the held paths whose content hash is the line's stated content hash in lower
\* case, when there is such a file, and not_found otherwise; never mismatch; lines
\* that differ only in their path get the same status and the same files.
C17_HashMatching ==
  \A k \in 1..Len(check) :
    (check[k].fn = "matchDetailEntriesByHash" /\ check[k].how = "input") =>
      /\ check[k].out.threw = "none"
      /\ Len(check[k].out.value) = Len(check[k].note.paths)
      /\ \A i \in 1..Len(check[k].note.paths) :
           LET files == PathsWithHash(check[k].note.held, toLowerCase(check[k].note.stated))
               result == check[k].out.value[i]
           IN /\ result.parsed.filePath = check[k].note.paths[i]
              /\ result.status # "mismatch"
              /\ IF files = <<>>
                 THEN result.status = "not_found" /\ "matchedFiles" \notin DOMAIN result
                 ELSE result.status = "match" /\ result.matchedFiles = files
      /\ \A i, j \in 1..Len(check[k].out.value) :
           /\ check[k].out.value[i].status = check[k].out.value[j].status
           /\ check[k].out.value[i].status = "match" =>
                check[k].out.value[i].matchedFiles = check[k].out.value[j].matchedFiles

\* two lines with different paths, stating "B", both matched the two files held with
\* the hash "b"
C17_Witness ==
  \E k \in 1..Len(check) :
    /\ check[k].fn = "matchDetailEntriesByHash" /\ check[k].how = "input"
    /\ check[k].note.stated = <<UpperA + 1>>
    /\ Len(check[k].out.value) = 2
    /\ check[k].out.value[1].status = "match"
    /\ Len(check[k].out.value[1].matchedFiles) = 2
    /\ check[k].out.value[2].status = "match"

----------------------------------------------------------------------------

Init ==
  /\ oracle = <<>>
  /\ tz = 0
  /\ call = [r \in Runs |-> IdleCall]
  /\ simple = [r \in Runs |-> IdleSimple]
  /\ check = NoCheck

\* creation: a proofset, or a simple proofset, is created and then created again
Next ==
  \/ CreateProofset
  \/ CreateProofsetAgain
  \/ \E r \in Runs : NextFile(r)
  \/ \E r \in Runs : EmitEntry(r)
  \/ \E r \in Runs : Finish(r)
  \/ CreateSimpleProofset
  \/ CreateSimpleProofsetAgain
  \/ \E r \in Runs : SimpleNextFile(r)
  \/ \E r \in Runs : SimpleFinish(r)
  \/ SetTimeZone

Spec == Init /\ [][Next]_vars

\* what the create command has written or printed: a step of its output
Output(fn, in) ==
  [fn |-> fn, in |-> in, how |-> "command", note |-> <<>>, out |-> Returned(TRUE)]

\* the create command, lines 98-110: createProofset has returned; the details file
\* is written
CreateCommandWriteDetails ==
  /\ call[1].pc = "done"
  /\ Len(check) = 0
  /\ check' = <<Output("writeFileSync",
                       [file |-> "proofset-details.txt",
                        content |-> call[1].result.fileDetailsLineList])>>
  /\ UNCHANGED <<oracle, tz, call, simple>>

\* the create command, lines 111-114: the hash list file is written
CreateCommandWriteHashList ==
  /\ call[1].pc = "done"
  /\ Len(check) = 1
  /\ check' = Append(check, Output("writeFileSync",
                       [file |-> "proofset-file-details-hash-list.txt",
                        content |-> call[1].result.fileDetailsHashList]))
  /\ UNCHANGED <<oracle, tz, call, simple>>

\* the create command, line 116: the root hash is printed
CreateCommandPrint ==
  /\ call[1].pc = "done"
  /\ Len(check) = 2
  /\ check' = Append(check, Output("console.log",
                       [content |-> call[1].result.hashsetHash]))
  /\ UNCHANGED <<oracle, tz, call, simple>>

\* the create command: one createProofset call, which may fail at any step, and the
\* outputs that follow its return
NextCreate ==
  \/ CreateProofset
  \/ NextFile(1)
  \/ EmitEntry(1)
  \/ Finish(1)
  \/ Fail(1)
  \/ CreateCommandWriteDetails
  \/ CreateCommandWriteHashList
  \/ CreateCommandPrint

SpecCreate == Init /\ [][NextCreate]_vars

\* verification: a proofset, or a simple proofset, is created and what it returned is
\* handed to the verifiers
NextVerify ==
  \/ CreateProofset
  \/ NextFile(1)
  \/ EmitEntry(1)
  \/ Finish(1)
  \/ CreateSimpleProofset
  \/ SimpleNextFile(1)
  \/ SimpleFinish(1)
  \/ CheckInferAlgorithm
  \/ CheckVerifyFileDetailsLine
  \/ CheckVerifyHashsetHash
  \/ CheckVerifyFileDetailsHashInList
  \/ CheckVerifyFileContentHash
  \/ CheckVerifySimpleProofsetHash
  \/ CheckSimpleFormat
  \/ CheckExtractSimpleLines
  \/ CheckParseSimpleLine
  \/ CheckMatchByPath
  \/ CheckMatchByHash
  \/ CheckUppercased

SpecVerify == Init /\ [][NextVerify]_vars

\* texts written by hand are handed to the verifiers and parsers
NextText ==
  \/ CheckCraftedLine
  \/ CheckCraftedHashList
  \/ CheckExtractDetailLines
  \/ CheckParseFileDetailsLine
  \/ CheckParseLegacySpacing
  \/ CheckCraftedMatchByPath
  \/ CheckCraftedMatchByHash
  \/ VerifyCommandDetect
  \/ VerifyCommandParse
  \/ CheckUppercased

SpecText == Init /\ [][NextText]_vars

\* proofsets of files with white space in their paths are created, and their detail
\* lines parsed and turned back into the hash list
NextParse ==
  \/ CreateProofsetSpaced
  \/ NextFile(1)
  \/ EmitEntry(1)
  \/ Finish(1)
  \/ CheckParseCreatedLine
  \/ CheckBuildHashList

SpecParse == Init /\ [][NextParse]_vars

\* the verify command on a simple proofset and files, on a hash list file and an
\* item, and on a details file with or without a hash list
NextBatch ==
  \/ VerifySimpleAgainstFiles
  \/ CheckHashListFormat
  \/ CheckListedHash
  \/ VerifyCommandDetails
  \/ VerifyCommandLine
  \/ VerifyCommandHashsetHash
  \/ VerifyCommandSummary

SpecBatch == Init /\ [][NextBatch]_vars

\* tampering: a proofset is created and a detail line of it is verified with one
\* character replaced
NextTamper ==
  \/ CreateProofset
  \/ NextFile(1)
  \/ EmitEntry(1)
  \/ Finish(1)
  \/ CheckTamperedLine

SpecTamper == Init /\ [][NextTamper]_vars

====
